---- MODULE Spec2Model ----
(***************************************************************************)
(* Model of the Flux backend:                                              *)
(*   backend/markdown_utils.py   split_markdown_by_sections                *)
(*   backend/ai_service.py       _parse_structure_response, the planners   *)
(*                               and generate_section_content              *)
(*   backend/routers/projects.py generate_full_document, create_project,   *)
(*                               plan_project_from_prompt                  *)
(*   backend/doc_generator.py    parse_markdown_line, parse_slide_content, *)
(*                               create_docx, create_pptx                  *)
(*   backend/routers/export.py   export_project                            *)
(*   backend/routers/sections.py create_section, delete_section,           *)
(*                               reorder_section, update_section           *)
(*   backend/routers/generation.py generate_section, refine_section,       *)
(*                               generate_all_sections                     *)
(*   backend/routers/feedback.py add_feedback, add_comment,                *)
(*                               regenerate_with_feedback                  *)
(*   backend/database.py         ensure_connection, get_db                 *)
(*                                                                         *)
(* A Python str is a sequence of one-character strings.  A Python dict is  *)
(* a sequence of [key, val] records in insertion order (assigning to an    *)
(* existing key keeps its position).  A float score is the exact fraction  *)
(* <<numerator, denominator>>.                                             *)
(***************************************************************************)
EXTENDS Integers, Sequences, FiniteSets, TLC

VARIABLES
    \* split_markdown_by_sections
    full_markdown, expected_sections, current_sections, sections_content,
    idx, pc,
    \* _parse_structure_response
    text, content_type, lines, line_no, title, items, in_items_section, ppc,
    \* generate_full_document and the tables it reads and writes
    project, db_sections, sections, markdown_content, gen_content, gen_i,
    updated, gpc,
    \* plan_project_from_prompt and generate_section_content
    api_key, plan_kind, plan_type, structure, plan_response, section_text,
    plpc,
    \* parse_markdown_line
    md_text, md_parts, md_part_no, md_runs, ipc,
    \* parse_slide_content
    slide_content, slide_lines, slide_line_no, in_content_section,
    slide_result, spc,
    \* export_project, create_docx and create_pptx
    exp_project, exp_sections, sec_no, docx_lines, line_i, doc_path,
    doc_body, visited, file_stream, exp_response, epc,
    \* the tables behind routers/sections.py and create_project, and the
    \* endpoint and the status of the last response, the projects whose
    \* updatedAt the last request wrote, and the section the last request
    \* created with the table as it was before
    project_rows, section_rows, next_id, crud_op, http_status,
    project_updates, last_created,
    \* the requests in flight on one project, each between two awaited calls
    tasks,
    \* the tables behind routers/generation.py, update_section and
    \* regenerate_with_feedback, and the last response
    proj_type, content_rows, history_count, feedback_type, comments,
    content_op, content_status, content_touched, generated_count,
    \* database.py: the client, the lock and the callers of ensure_connection
    is_connected, last_health_check, connection_lock, callers

splitVars == <<full_markdown, expected_sections, current_sections,
               sections_content, idx, pc>>

parseVars == <<text, content_type, lines, line_no, title, items,
               in_items_section, ppc>>

genVars == <<project, db_sections, sections, markdown_content, gen_content,
             gen_i, updated, gpc>>

planVars == <<api_key, plan_kind, plan_type, structure, plan_response,
              section_text, plpc>>

inlineVars == <<md_text, md_parts, md_part_no, md_runs, ipc>>

slideVars == <<slide_content, slide_lines, slide_line_no, in_content_section,
               slide_result, spc>>

exportVars == <<exp_project, exp_sections, sec_no, docx_lines, line_i,
                doc_path, doc_body, visited, file_stream, exp_response, epc>>

crudVars == <<project_rows, section_rows, next_id, crud_op, http_status,
              project_updates, last_created>>

concVars == <<tasks>>

contentVars == <<proj_type, content_rows, history_count, feedback_type,
                 comments, content_op, content_status, content_touched,
                 generated_count>>

connVars == <<is_connected, last_health_check, connection_lock, callers>>

lateVars == <<concVars, contentVars, connVars>>

coreVars == <<splitVars, parseVars, genVars>>

restVars == <<planVars, inlineVars, slideVars, exportVars, crudVars,
              lateVars>>

vars == <<coreVars, restVars>>

-----------------------------------------------------------------------------
(* Bounds of the checked input space.                                      *)

\* longest Markdown document of the structural family, in lines
MaxLines == 3
\* longest Markdown document of the heading-only family, in headings
MaxHeadings == 3
\* longest list of expected section titles
MaxExpected == 2
\* longest planner response, in lines
MaxParseLines == 3
\* longest text given to parse_markdown_line, in tokens
MaxInlineTokens == 4
\* longest slide content, in lines
MaxSlideLines == 4
\* longest section content of the general family, in lines
MaxDocLines == 3
\* longest section content of the table family, in lines
MaxTableLines == 4
\* most projects created
MaxProjects == 2
\* most section rows ever created (an id is never given twice)
MaxSectionIds == 4

-----------------------------------------------------------------------------
(* Python str primitives.                                                  *)

NL == "\n"

Uppers == <<"A","B","C","D","E","F","G","H","I","J","K","L","M",
            "N","O","P","Q","R","S","T","U","V","W","X","Y","Z">>

Lowers == <<"a","b","c","d","e","f","g","h","i","j","k","l","m",
            "n","o","p","q","r","s","t","u","v","w","x","y","z">>

\* str.isspace for one character
IsSpace(c) == c \in {" ", NL, "\t"}

\* str.lower for one character
LowerChar(c) ==
    IF \E i \in 1..26 : Uppers[i] = c
    THEN Lowers[CHOOSE i \in 1..26 : Uppers[i] = c]
    ELSE c

\* str.upper for one character
UpperChar(c) ==
    IF \E i \in 1..26 : Lowers[i] = c
    THEN Uppers[CHOOSE i \in 1..26 : Lowers[i] = c]
    ELSE c

\* str.lower
StrLower(s) == [i \in 1..Len(s) |-> LowerChar(s[i])]

\* str.upper
StrUpper(s) == [i \in 1..Len(s) |-> UpperChar(s[i])]

\* str.lstrip() : drop leading whitespace
LStrip(s) ==
    LET keep == {i \in 1..Len(s) : ~IsSpace(s[i])}
    IN  IF keep = {} THEN <<>>
        ELSE SubSeq(s, CHOOSE i \in keep : \A j \in keep : i <= j, Len(s))

\* str.rstrip() : drop trailing whitespace
RStrip(s) ==
    LET keep == {i \in 1..Len(s) : ~IsSpace(s[i])}
    IN  IF keep = {} THEN <<>>
        ELSE SubSeq(s, 1, CHOOSE i \in keep : \A j \in keep : j <= i)

\* str.strip()
Strip(s) == RStrip(LStrip(s))

\* a.startswith(b)
StartsWith(a, b) == Len(b) <= Len(a) /\ SubSeq(a, 1, Len(b)) = b

\* `a in b` for two str
IsSubstr(a, b) ==
    \E i \in 0..(Len(b) - Len(a)) : SubSeq(b, i + 1, i + Len(a)) = a

\* set(s.split()) : the maximal runs of non-whitespace characters
WordSet(s) ==
    {SubSeq(s, i, j) : <<i, j>> \in
        {p \in (1..Len(s)) \X (1..Len(s)) :
            /\ p[1] <= p[2]
            /\ \A k \in p[1]..p[2] : ~IsSpace(s[k])
            /\ (p[1] = 1 \/ IsSpace(s[p[1] - 1]))
            /\ (p[2] = Len(s) \/ IsSpace(s[p[2] + 1]))}}

Max(a, b) == IF a >= b THEN a ELSE b

-----------------------------------------------------------------------------
(* Python dict, insertion ordered.                                         *)

DictHas(d, k) == \E i \in 1..Len(d) : d[i].key = k

DictGet(d, k) == d[CHOOSE i \in 1..Len(d) : d[i].key = k].val

\* mutant of DictPut: a list of pairs, an existing key is not replaced
DictPutAppend(d, k, v) == Append(d, [key |-> k, val |-> v])

\* d[k] = v
DictPut(d, k, v) ==
    IF DictHas(d, k)
    THEN [i \in 1..Len(d) |-> IF d[i].key = k THEN [key |-> k, val |-> v] ELSE d[i]]
    ELSE Append(d, [key |-> k, val |-> v])

DictKeys(d) == {d[i].key : i \in 1..Len(d)}

-----------------------------------------------------------------------------
(* re.split(r'^## (.+?)$', full_markdown, flags=re.MULTILINE)              *)

HeadingMark == <<"#","#"," ">>

\* `^` under re.MULTILINE: position p is the start of the text or follows "\n"
AtLineStart(s, p) == p = 1 \/ s[p - 1] = NL

\* mutant of HeadingAt: the pattern without its `^` anchor
HeadingAtUnanchored(s, p) ==
    /\ p + 3 <= Len(s)
    /\ SubSeq(s, p, p + 2) = HeadingMark
    /\ s[p + 3] # NL

\* the pattern matches at p: "## " at a line start and at least one more
\* character that is not a newline (`.+?` then runs lazily to `$`)
HeadingAt(s, p) ==
    /\ AtLineStart(s, p)
    /\ p + 3 <= Len(s)
    /\ SubSeq(s, p, p + 2) = HeadingMark
    /\ s[p + 3] # NL

\* `$` under re.MULTILINE: the first position after p that is the end of the
\* text or stands before "\n"; returned as the index of the last matched char
LineEnd(s, p) ==
    LET stops == {q \in p..Len(s) : q = Len(s) \/ s[q + 1] = NL}
    IN  CHOOSE q \in stops : \A r \in stops : q <= r

\* re.split with one capture group: [pre, title1, body1, title2, body2, ...]
RECURSIVE ReSplitFrom(_, _)
ReSplitFrom(s, from) ==
    LET starts == {p \in from..Len(s) : HeadingAt(s, p)}
    IN  IF starts = {} THEN <<SubSeq(s, from, Len(s))>>
        ELSE LET p == CHOOSE x \in starts : \A y \in starts : x <= y
                 e == LineEnd(s, p + 3)
             IN  <<SubSeq(s, from, p - 1), SubSeq(s, p + 3, e)>>
                 \o ReSplitFrom(s, e + 1)

ReSplit(s) == ReSplitFrom(s, 1)

\* f"## {section_title}\n\n{section_content}"
Chunk(section_title, section_content) ==
    HeadingMark \o section_title \o <<NL, NL>> \o section_content

\* the loop `for i in range(1, len(parts), 2)` building current_sections
RECURSIVE BuildSections(_, _, _)
BuildSections(parts, i, acc) ==
    IF i > Len(parts) THEN acc
    ELSE IF i + 1 <= Len(parts)
         THEN LET section_title == Strip(parts[i])
                  section_content == Strip(parts[i + 1])
              IN  BuildSections(parts, i + 2,
                      DictPut(acc, StrLower(section_title),
                              Chunk(section_title, section_content)))
         ELSE BuildSections(parts, i + 2, acc)

CurrentSections(md) == BuildSections(ReSplit(md), 2, <<>>)

-----------------------------------------------------------------------------
(* re.sub(r'\s*\([^)]*\)\s*', '', expected).strip()                        *)

\* length of the whitespace run that ends just before position p
SpaceRunBefore(s, p) ==
    LET ns == {k \in 0..(p - 1) : \A j \in (p - k)..(p - 1) : IsSpace(s[j])}
    IN  CHOOSE k \in ns : \A m \in ns : m <= k

\* length of the whitespace run that starts just after position p
SpaceRunAfter(s, p) ==
    LET ns == {k \in 0..(Len(s) - p) : \A j \in (p + 1)..(p + k) : IsSpace(s[j])}
    IN  CHOOSE k \in ns : \A m \in ns : m <= k

RECURSIVE ReSubParen(_)
ReSubParen(s) ==
    LET opens == {i \in 1..Len(s) :
                    s[i] = "(" /\ \E j \in (i + 1)..Len(s) : s[j] = ")"}
    IN  IF opens = {} THEN s
        ELSE LET o == CHOOSE x \in opens : \A y \in opens : x <= y
                 closes == {j \in (o + 1)..Len(s) : s[j] = ")"}
                 c == CHOOSE x \in closes : \A y \in closes : x <= y
                 b == o - SpaceRunBefore(s, o)
                 e == c + SpaceRunAfter(s, c)
             IN  SubSeq(s, 1, b - 1) \o ReSubParen(SubSeq(s, e + 1, Len(s)))

\* mutant of ExpectedCore: the parenthetical is not removed
ExpectedCoreKeepParen(expected) == Strip(expected)

ExpectedCore(expected) == Strip(ReSubParen(expected))

-----------------------------------------------------------------------------
(* The fuzzy score of one parsed heading against the expected core title.  *)
(* A score is <<num, den>>; den = 0 is Python's ZeroDivisionError.         *)

Hundred == 100
Eighty == 80
Sixty == 60
Threshold == 40

\* mutant of Score: the first rule divides by the length of the parsed title
ScoreSwappedDivisor(parsed_title, expected_core_lower) ==
    IF IsSubstr(parsed_title, expected_core_lower)
    THEN <<Len(expected_core_lower) * Hundred, Len(parsed_title)>>
    ELSE IF IsSubstr(expected_core_lower, parsed_title)
    THEN <<Len(expected_core_lower) * Eighty, Len(parsed_title)>>
    ELSE LET expected_words == WordSet(expected_core_lower)
             parsed_words == WordSet(parsed_title)
             common_words == expected_words \cap parsed_words
         IN  IF Cardinality(common_words) > 0
             THEN <<Cardinality(common_words) * Sixty,
                    Max(Cardinality(expected_words), Cardinality(parsed_words))>>
             ELSE <<0, 1>>

Score(parsed_title, expected_core_lower) ==
    IF IsSubstr(parsed_title, expected_core_lower)
    THEN <<Len(parsed_title) * Hundred, Len(expected_core_lower)>>
    ELSE IF IsSubstr(expected_core_lower, parsed_title)
    THEN <<Len(expected_core_lower) * Eighty, Len(parsed_title)>>
    ELSE LET expected_words == WordSet(expected_core_lower)
             parsed_words == WordSet(parsed_title)
             common_words == expected_words \cap parsed_words
         IN  IF Cardinality(common_words) > 0
             THEN <<Cardinality(common_words) * Sixty,
                    Max(Cardinality(expected_words), Cardinality(parsed_words))>>
             ELSE <<0, 1>>

\* a > b for two scores with positive denominators
ScoreGT(a, b) == a[1] * b[2] > b[1] * a[2]

\* mutant of AboveThreshold: best_score >= 40
AtOrAboveThreshold(score) == ~ScoreGT(<<Threshold, 1>>, score)

\* best_score > 40
AboveThreshold(score) == ScoreGT(score, <<Threshold, 1>>)

\* the loop `for parsed_title, content in current_sections.items()`;
\* best is [score, match, raised], match = 0 is None, else an index
\* mutant of BestMatch: score >= best_score, an equal score replaces the best
RECURSIVE BestMatchKeepLast(_, _, _, _)
BestMatchKeepLast(cur, core_lower, i, best) ==
    IF i > Len(cur) \/ best.raised THEN best
    ELSE LET score == Score(cur[i].key, core_lower)
         IN  IF score[2] = 0
             THEN [best EXCEPT !.raised = TRUE]
             ELSE IF ~ScoreGT(best.score, score)
                  THEN BestMatchKeepLast(cur, core_lower, i + 1,
                                 [score |-> score, match |-> i, raised |-> FALSE])
                  ELSE BestMatchKeepLast(cur, core_lower, i + 1, best)

RECURSIVE BestMatch(_, _, _, _)
BestMatch(cur, core_lower, i, best) ==
    IF i > Len(cur) \/ best.raised THEN best
    ELSE LET score == Score(cur[i].key, core_lower)
         IN  IF score[2] = 0
             THEN [best EXCEPT !.raised = TRUE]
             ELSE IF ScoreGT(score, best.score)
                  THEN BestMatch(cur, core_lower, i + 1,
                                 [score |-> score, match |-> i, raised |-> FALSE])
                  ELSE BestMatch(cur, core_lower, i + 1, best)

NoBest == [score |-> <<0, 1>>, match |-> 0, raised |-> FALSE]

PlaceholderBody ==
    <<"*","C","o","n","t","e","n","t"," ","f","o","r"," ","t","h","i","s"," ",
      "s","e","c","t","i","o","n"," ","w","a","s"," ","n","o","t"," ",
      "g","e","n","e","r","a","t","e","d",".","*">>

Placeholder(expected_core) ==
    HeadingMark \o expected_core \o <<NL, NL>> \o PlaceholderBody

\* mutant of MatchOne: the core title is looked up before the full title
MatchOneCoreFirst(cur, expected) ==
    LET expected_core == ExpectedCore(expected)
        expected_lower == StrLower(expected)
        expected_core_lower == StrLower(expected_core)
    IN  IF DictHas(cur, expected_core_lower)
        THEN [raised |-> FALSE, val |-> DictGet(cur, expected_core_lower)]
        ELSE IF DictHas(cur, expected_lower)
        THEN [raised |-> FALSE, val |-> DictGet(cur, expected_lower)]
        ELSE LET best == BestMatch(cur, expected_core_lower, 1, NoBest)
             IN  IF best.raised
                 THEN [raised |-> TRUE, val |-> <<>>]
                 ELSE IF best.match # 0 /\ AboveThreshold(best.score)
                      THEN [raised |-> FALSE, val |-> cur[best.match].val]
                      ELSE [raised |-> FALSE, val |-> Placeholder(expected_core)]

\* one iteration of `for expected in expected_sections`:
\* [raised |-> BOOLEAN, val |-> the chunk stored under `expected`]
MatchOne(cur, expected) ==
    LET expected_core == ExpectedCore(expected)
        expected_lower == StrLower(expected)
        expected_core_lower == StrLower(expected_core)
    IN  IF DictHas(cur, expected_lower)
        THEN [raised |-> FALSE, val |-> DictGet(cur, expected_lower)]
        ELSE IF DictHas(cur, expected_core_lower)
        THEN [raised |-> FALSE, val |-> DictGet(cur, expected_core_lower)]
        ELSE LET best == BestMatch(cur, expected_core_lower, 1, NoBest)
             IN  IF best.raised
                 THEN [raised |-> TRUE, val |-> <<>>]
                 ELSE IF best.match # 0 /\ AboveThreshold(best.score)
                      THEN [raised |-> FALSE, val |-> cur[best.match].val]
                      ELSE [raised |-> FALSE, val |-> Placeholder(expected_core)]

-----------------------------------------------------------------------------
(* Inputs: documents are lines joined by "\n", titles come from a          *)
(* vocabulary that exercises every branch of the matcher.                  *)

\* structural family: headings of level 2 and 3, body text, a heading whose
\* text is blank; titles with an exact, a core and no match, one of them
\* nothing but a parenthetical
StructLines ==
    { <<"#","#"," ","A","b">>,
      <<"#","#"," "," ">>,
      <<"#","#","#"," ","x">>,
      <<"t">> }

StructTitles ==
    { <<"A","b">>,
      <<"a","b"," ","(","x",")">>,
      <<"(","x",")">> }

\* heading-only family: headings that share words with the titles
FuzzyLines ==
    { <<"#","#"," ","a"," ","b"," ","c"," ","d"," ","x">>,
      <<"#","#"," ","x"," ","a"," ","b"," ","c"," ","d">>,
      <<"#","#"," ","a"," ","b"," ","x"," ","y"," ","z">>,
      <<"#","#"," ","A"," ","b"," ","c">>,
      <<"#","#"," ","a"," ","b"," ","x">>,
      <<"#","#"," ","A"," ","b"," ","c"," ","(","q",")">> }

FuzzyTitles ==
    { <<"a"," ","b"," ","c"," ","d"," ","e">>,
      <<"a"," ","B"," ","c">>,
      <<"a"," ","b"," ","c"," ","(","q",")">> }

RECURSIVE Join(_)
Join(ls) ==
    IF Len(ls) = 0 THEN <<>>
    ELSE IF Len(ls) = 1 THEN ls[1]
    ELSE ls[1] \o <<NL>> \o Join(Tail(ls))

SeqsUpTo(S, n) == UNION {[1..k -> S] : k \in 0..n}

StructDocs == {Join(ls) : ls \in SeqsUpTo(StructLines, MaxLines)}

FuzzyDocs == {Join(ls) : ls \in SeqsUpTo(FuzzyLines, MaxHeadings)}

StructLists == SeqsUpTo(StructTitles, MaxExpected)

FuzzyLists == {<<t>> : t \in FuzzyTitles}

-----------------------------------------------------------------------------
(* split_markdown_by_sections as one function: the dict it returns, or     *)
(* raised when a score divides by zero.                                    *)

RECURSIVE MatchAll(_, _, _, _)
MatchAll(cur, expected_list, i, acc) ==
    IF i > Len(expected_list) THEN [raised |-> FALSE, val |-> acc]
    ELSE LET r == MatchOne(cur, expected_list[i])
         IN  IF r.raised THEN [raised |-> TRUE, val |-> acc]
             ELSE MatchAll(cur, expected_list, i + 1,
                           DictPut(acc, expected_list[i], r.val))

SplitMarkdownBySections(md, expected_list) ==
    MatchAll(CurrentSections(md), expected_list, 1, <<>>)

-----------------------------------------------------------------------------
(* Idle values of the components a specification does not run.             *)

IdleSplit ==
    /\ full_markdown = <<>>
    /\ expected_sections = <<>>
    /\ current_sections = <<>>
    /\ sections_content = <<>>
    /\ idx = 1
    /\ pc = "idle"

IdleParse ==
    /\ text = <<>>
    /\ content_type = <<>>
    /\ lines = <<>>
    /\ line_no = 1
    /\ title = <<>>
    /\ items = <<>>
    /\ in_items_section = FALSE
    /\ ppc = "idle"

IdleGen ==
    /\ project = "none"
    /\ db_sections = <<>>
    /\ sections = <<>>
    /\ markdown_content = <<>>
    /\ gen_content = <<>>
    /\ gen_i = 1
    /\ updated = {}
    /\ gpc = "idle"

IdlePlan ==
    /\ api_key = FALSE
    /\ plan_kind = "idle"
    /\ plan_type = "idle"
    /\ structure = <<>>
    /\ plan_response = <<>>
    /\ section_text = <<>>
    /\ plpc = "idle"

IdleInline ==
    /\ md_text = <<>>
    /\ md_parts = <<>>
    /\ md_part_no = 1
    /\ md_runs = <<>>
    /\ ipc = "idle"

IdleSlide ==
    /\ slide_content = <<>>
    /\ slide_lines = <<>>
    /\ slide_line_no = 1
    /\ in_content_section = FALSE
    /\ slide_result = <<>>
    /\ spc = "idle"

IdleExport ==
    /\ exp_project = <<>>
    /\ exp_sections = <<>>
    /\ sec_no = 1
    /\ docx_lines = <<>>
    /\ line_i = 0
    /\ doc_path = "idle"
    /\ doc_body = <<>>
    /\ visited = <<>>
    /\ file_stream = <<>>
    /\ exp_response = <<>>
    /\ epc = "idle"

IdleCrud ==
    /\ project_rows = {}
    /\ section_rows = {}
    /\ next_id = 1
    /\ crud_op = "none"
    /\ http_status = 0
    /\ project_updates = {}
    /\ last_created = <<>>

IdleConc == tasks = <<>>

IdleContent ==
    /\ proj_type = ""
    /\ content_rows = <<>>
    /\ history_count = 0
    /\ feedback_type = ""
    /\ comments = <<>>
    /\ content_op = "none"
    /\ content_status = 0
    /\ content_touched = FALSE
    /\ generated_count = 0

IdleConn ==
    /\ is_connected = FALSE
    /\ last_health_check = <<>>
    /\ connection_lock = 0
    /\ callers = <<>>

IdleLate == IdleConc /\ IdleContent /\ IdleConn

IdleRest ==
    IdlePlan /\ IdleInline /\ IdleSlide /\ IdleExport /\ IdleCrud /\ IdleLate

IdleCore == IdleSplit /\ IdleParse /\ IdleGen

-----------------------------------------------------------------------------
(* split_markdown_by_sections as a state machine.                          *)

SplitInputs ==
    /\ \/ full_markdown \in StructDocs /\ expected_sections \in StructLists
       \/ full_markdown \in FuzzyDocs /\ expected_sections \in FuzzyLists
    /\ current_sections = <<>>
    /\ sections_content = <<>>
    /\ idx = 1
    /\ pc = "split"

InitSplit == SplitInputs /\ IdleParse /\ IdleGen /\ IdleRest

\* lines 64-75: split on the level-2 headings and build current_sections
SplitHeadings ==
    /\ pc = "split"
    /\ current_sections' = CurrentSections(full_markdown)
    /\ pc' = "match"
    /\ UNCHANGED <<full_markdown, expected_sections, sections_content, idx>>
    /\ UNCHANGED <<parseVars, genVars, restVars>>

\* lines 78-128: one iteration of the loop over expected_sections
MatchExpected ==
    /\ pc = "match"
    /\ idx <= Len(expected_sections)
    /\ LET expected == expected_sections[idx]
           r == MatchOne(current_sections, expected)
       IN  IF r.raised
           THEN /\ pc' = "raised"
                /\ UNCHANGED <<sections_content, idx>>
           ELSE /\ sections_content' = DictPut(sections_content, expected, r.val)
                /\ idx' = idx + 1
                /\ pc' = pc
    /\ UNCHANGED <<full_markdown, expected_sections, current_sections>>
    /\ UNCHANGED <<parseVars, genVars, restVars>>

\* lines 130-131: return sections_content
ReturnSections ==
    /\ pc = "match"
    /\ idx > Len(expected_sections)
    /\ pc' = "done"
    /\ UNCHANGED <<full_markdown, expected_sections, current_sections,
                   sections_content, idx>>
    /\ UNCHANGED <<parseVars, genVars, restVars>>

NextSplit == SplitHeadings \/ MatchExpected \/ ReturnSections

SpecSplit == InitSplit /\ [][NextSplit]_vars

-----------------------------------------------------------------------------
(* _parse_structure_response                                               *)

TitleTag == <<"T","I","T","L","E",":">>

Slides == <<"s","l","i","d","e","s">>

SectionsType == <<"s","e","c","t","i","o","n","s">>

ContentTypes == {Slides, SectionsType}

\* mutant of DefaultTitle: the two defaults exchanged
DefaultTitleSwapped(ct) ==
    IF ct = Slides
    THEN <<"U","n","t","i","t","l","e","d"," ","D","o","c","u","m","e","n","t">>
    ELSE <<"U","n","t","i","t","l","e","d"," ","P","r","e","s","e","n","t","a","t","i","o","n">>

DefaultTitle(ct) ==
    IF ct = Slides
    THEN <<"U","n","t","i","t","l","e","d"," ","P","r","e","s","e","n","t","a","t","i","o","n">>
    ELSE <<"U","n","t","i","t","l","e","d"," ","D","o","c","u","m","e","n","t">>

DefaultItems(ct) ==
    IF ct = Slides
    THEN << <<"O","p","e","n","i","n","g">>,
            <<"M","a","i","n"," ","C","o","n","t","e","n","t">>,
            <<"C","l","o","s","i","n","g">> >>
    ELSE << <<"I","n","t","r","o","d","u","c","t","i","o","n">>,
            <<"M","a","i","n"," ","B","o","d","y">>,
            <<"C","o","n","c","l","u","s","i","o","n">> >>

\* text.split('\n')
RECURSIVE SplitLines(_)
SplitLines(s) ==
    LET nls == {i \in 1..Len(s) : s[i] = NL}
    IN  IF nls = {} THEN <<s>>
        ELSE LET n == CHOOSE x \in nls : \A y \in nls : x <= y
             IN  <<SubSeq(s, 1, n - 1)>> \o SplitLines(SubSeq(s, n + 1, Len(s)))

\* line.replace(old, '') : drop every occurrence of old, left to right
RECURSIVE RemoveAll(_, _)
RemoveAll(s, old) ==
    LET at == {i \in 1..(Len(s) - Len(old) + 1) :
                 SubSeq(s, i, i + Len(old) - 1) = old}
    IN  IF at = {} THEN s
        ELSE LET a == CHOOSE x \in at : \A y \in at : x <= y
             IN  SubSeq(s, 1, a - 1)
                 \o RemoveAll(SubSeq(s, a + Len(old), Len(s)), old)

\* line.lstrip('- ') : drop the leading dashes and spaces
LStripDashSpace(s) ==
    LET keep == {i \in 1..Len(s) : s[i] \notin {"-", " "}}
    IN  IF keep = {} THEN <<>>
        ELSE SubSeq(s, CHOOSE i \in keep : \A j \in keep : i <= j, Len(s))

PlannerLines ==
    { <<"T","I","T","L","E",":"," ","T">>,
      <<"T","I","T","L","E",":">>,
      <<"S","l","i","d","e","s",":">>,
      <<"S","E","C","T","I","O","N","S",":"," ","x">>,
      <<"-"," ","a">>,
      <<" ","-","-"," ","b"," ">>,
      <<"-">>,
      <<"x">> }

PlannerTexts == {Join(ls) : ls \in SeqsUpTo(PlannerLines, MaxParseLines)}

ParseInputs ==
    /\ text \in PlannerTexts
    /\ content_type \in ContentTypes
    /\ lines = <<>>
    /\ line_no = 1
    /\ title = <<>>
    /\ items = <<>>
    /\ in_items_section = FALSE
    /\ ppc = "start"

InitParse == ParseInputs /\ IdleSplit /\ IdleGen /\ IdleRest

\* lines 434-438
ParseStart ==
    /\ ppc = "start"
    /\ lines' = SplitLines(text)
    /\ title' = <<>>
    /\ items' = <<>>
    /\ in_items_section' = FALSE
    /\ line_no' = 1
    /\ ppc' = "scan"
    /\ UNCHANGED <<text, content_type>>
    /\ UNCHANGED <<splitVars, genVars, restVars>>

\* the item a '-' line contributes (lines 447-449): <<>> when it is blank
ItemOf(line) == Strip(LStripDashSpace(line))

\* mutant of ScanLine: a line that is no title, marker or dash line ends the
\* items section
ScanLineExits(st, raw, ct) ==
    LET line == Strip(raw)
    IN  IF StartsWith(line, TitleTag)
        THEN [st EXCEPT !.title = Strip(RemoveAll(line, TitleTag))]
        ELSE IF StartsWith(StrUpper(line), StrUpper(ct) \o <<":">>)
        THEN [st EXCEPT !.in_items_section = TRUE]
        ELSE IF st.in_items_section /\ StartsWith(line, <<"-">>)
        THEN IF ItemOf(line) # <<>>
             THEN [st EXCEPT !.items = Append(st.items, ItemOf(line))]
             ELSE st
        ELSE [st EXCEPT !.in_items_section = FALSE]

\* lines 440-449: the body of `for line in lines`, on the loop's variables
\* st = [title, items, in_items_section]
ScanLine(st, raw, ct) ==
    LET line == Strip(raw)
    IN  IF StartsWith(line, TitleTag)
        THEN [st EXCEPT !.title = Strip(RemoveAll(line, TitleTag))]
        ELSE IF StartsWith(StrUpper(line), StrUpper(ct) \o <<":">>)
        THEN [st EXCEPT !.in_items_section = TRUE]
        ELSE IF st.in_items_section /\ StartsWith(line, <<"-">>)
        THEN IF ItemOf(line) # <<>>
             THEN [st EXCEPT !.items = Append(st.items, ItemOf(line))]
             ELSE st
        ELSE st

\* lines 439-449: one iteration of `for line in lines`
ParseLine ==
    /\ ppc = "scan"
    /\ line_no <= Len(lines)
    /\ LET st == ScanLine([title |-> title, items |-> items,
                           in_items_section |-> in_items_section],
                          lines[line_no], content_type)
       IN  /\ title' = st.title
           /\ items' = st.items
           /\ in_items_section' = st.in_items_section
    /\ line_no' = line_no + 1
    /\ UNCHANGED <<text, content_type, lines, ppc>>
    /\ UNCHANGED <<splitVars, genVars, restVars>>

\* lines 451-462: the defaults, then return {"title": title, content_type: items}
ParseReturn ==
    /\ ppc = "scan"
    /\ line_no > Len(lines)
    /\ title' = IF title = <<>> THEN DefaultTitle(content_type) ELSE title
    /\ items' = IF items = <<>> THEN DefaultItems(content_type) ELSE items
    /\ ppc' = "done"
    /\ UNCHANGED <<text, content_type, lines, line_no, in_items_section>>
    /\ UNCHANGED <<splitVars, genVars, restVars>>

NextParse == ParseStart \/ ParseLine \/ ParseReturn

SpecParse == InitParse /\ [][NextParse]_vars

-----------------------------------------------------------------------------
(* generate_full_document (routers/projects.py) over the section table.    *)
(* db_sections is the project's rows in orderIndex order; every action is  *)
(* one awaited call together with the synchronous code that follows it.    *)

\* markdown_to_html: "" for empty content, else the markdown library's
\* rendering, kept abstract as a tagged copy of its input
MarkdownToHtml(markdown_content_in) ==
    IF markdown_content_in = <<>> THEN <<>>
    ELSE <<"<html>">> \o markdown_content_in

NotGeneratedBody == <<"C","o","n","t","e","n","t"," ","n","o","t"," ","g","e","n","e","r","a","t","e","d",".">>

\* sections_content.get(section.title, f"## {section.title}\n\nContent not generated.")
SectionMarkdown(content, section_title) ==
    IF DictHas(content, section_title)
    THEN DictGet(content, section_title)
    ELSE Chunk(section_title, NotGeneratedBody)

\* mutant of LoopSection: the row is found by its title, not taken in turn
LoopSectionByTitle(secs, i) ==
    secs[CHOOSE k \in 1..Len(secs) :
            /\ secs[k].title = secs[i].title
            /\ \A j \in 1..Len(secs) : secs[j].title = secs[i].title => k <= j]

\* `for section in sections`: the section the i-th iteration updates
LoopSection(secs, i) == secs[i]

\* db.documentsection.update(where={"id": id}, data={content, htmlContent})
UpdateSection(rows, id, content, html) ==
    [k \in 1..Len(rows) |->
        IF rows[k].id = id
        THEN [rows[k] EXCEPT !.content = content, !.htmlContent = html]
        ELSE rows[k]]

OldContent == <<"o">>

GenInputs ==
    /\ project \in {"none", "pptx", "docx"}
    /\ \E ts \in StructLists :
          db_sections = [k \in 1..Len(ts) |->
                            [id |-> k, title |-> ts[k],
                             content |-> OldContent, htmlContent |-> <<>>]]
    /\ sections = <<>>
    /\ markdown_content = <<>>
    /\ gen_content = <<>>
    /\ gen_i = 1
    /\ updated = {}
    /\ gpc = "start"

InitGen == GenInputs /\ IdleSplit /\ IdleParse /\ IdleRest

\* lines 116-131: find the project; 404 when absent, 400 when not docx
GenFindProject ==
    /\ gpc = "start"
    /\ gpc' = IF project = "none" THEN "http404"
              ELSE IF project # "docx" THEN "http400"
              ELSE "find_sections"
    /\ UNCHANGED <<project, db_sections, sections, markdown_content,
                   gen_content, gen_i, updated>>
    /\ UNCHANGED <<splitVars, parseVars, restVars>>

\* lines 134-140: the project's sections in orderIndex order
GenFindSections ==
    /\ gpc = "find_sections"
    /\ sections' = db_sections
    /\ gpc' = "generate"
    /\ UNCHANGED <<project, db_sections, markdown_content, gen_content,
                   gen_i, updated>>
    /\ UNCHANGED <<splitVars, parseVars, restVars>>

\* lines 144-154: the AI returns some text (a document or a sentinel
\* message), which is split by the section titles
GenGenerate ==
    /\ gpc = "generate"
    /\ \E md \in StructDocs :
          LET section_titles == [k \in 1..Len(sections) |-> sections[k].title]
              r == SplitMarkdownBySections(md, section_titles)
          IN  /\ markdown_content' = md
              /\ gen_content' = r.val
              /\ gpc' = IF r.raised THEN "raised" ELSE "update"
    /\ gen_i' = 1
    /\ UNCHANGED <<project, db_sections, sections, updated>>
    /\ UNCHANGED <<splitVars, parseVars, restVars>>

\* lines 157-169: one iteration of `for section in sections`
GenUpdateSection ==
    /\ gpc = "update"
    /\ gen_i <= Len(sections)
    /\ LET section == LoopSection(sections, gen_i)
           section_markdown == SectionMarkdown(gen_content, section.title)
           section_html == MarkdownToHtml(section_markdown)
       IN  /\ db_sections' = UpdateSection(db_sections, section.id,
                                           section_markdown, section_html)
           /\ updated' = updated \cup {section.id}
    /\ gen_i' = gen_i + 1
    /\ UNCHANGED <<project, sections, markdown_content, gen_content, gpc>>
    /\ UNCHANGED <<splitVars, parseVars, restVars>>

\* lines 171-178: the response
GenReturn ==
    /\ gpc = "update"
    /\ gen_i > Len(sections)
    /\ gpc' = "done"
    /\ UNCHANGED <<project, db_sections, sections, markdown_content,
                   gen_content, gen_i, updated>>
    /\ UNCHANGED <<splitVars, parseVars, restVars>>

NextGen ==
    \/ GenFindProject
    \/ GenFindSections
    \/ GenGenerate
    \/ GenUpdateSection
    \/ GenReturn

SpecGen == InitGen /\ [][NextGen]_vars

-----------------------------------------------------------------------------
(* Either parser, called once on one input.                                *)

InitParsers == InitSplit \/ InitParse

NextParsers == NextSplit \/ NextParse

SpecParsers == InitParsers /\ [][NextParsers]_vars

-----------------------------------------------------------------------------
(* The document seen as lines, and the claims' own reading of the scores.  *)

IsHeadingLine(l) == Len(l) >= 4 /\ SubSeq(l, 1, 3) = HeadingMark

HeadingIdxs(ls) == {h \in 1..Len(ls) : IsHeadingLine(ls[h])}

HeadingText(ls, h) == Strip(SubSeq(ls[h], 4, Len(ls[h])))

\* the lines after heading h up to the next level-2 heading or the end
BodyOf(ls, h) ==
    LET later == {j \in HeadingIdxs(ls) : j > h}
        stop == IF later = {} THEN Len(ls) + 1
                ELSE CHOOSE j \in later : \A k \in later : j <= k
    IN  Strip(Join(SubSeq(ls, h + 1, stop - 1)))

\* the heading lines whose text is key k, case-insensitively
HeadingsFor(ls, k) == {h \in HeadingIdxs(ls) : StrLower(HeadingText(ls, h)) = k}

MinOf(S) == CHOOSE x \in S : ~\E y \in S : y < x

MaxOf(S) == CHOOSE x \in S : ~\E y \in S : y > x

\* the chunk the document holds for key k: that of its last heading k
ChunkFor(ls, k) ==
    LET h == MaxOf(HeadingsFor(ls, k))
    IN  HeadingMark \o HeadingText(ls, h) \o <<NL, NL>> \o BodyOf(ls, h)

\* the title up to its parenthetical suffix
RECURSIVE BeforeParen(_)
BeforeParen(e) ==
    IF e = <<>> \/ Head(e) = "(" THEN <<>>
    ELSE <<Head(e)>> \o BeforeParen(Tail(e))

HasParenSuffix(e) ==
    /\ Len(e) > 0
    /\ e[Len(e)] = ")"
    /\ Cardinality({i \in 1..Len(e) : e[i] = "("}) = 1
    /\ Cardinality({i \in 1..Len(e) : e[i] = ")"}) = 1

CoreTitle(e) == IF HasParenSuffix(e) THEN Strip(BeforeParen(e)) ELSE Strip(e)

\* the score of key against core, rule by rule, as num/den
RuleScore(key, core) ==
    CASE IsSubstr(key, core) -> <<Len(key) * 100, Len(core)>>
      [] ~IsSubstr(key, core) /\ IsSubstr(core, key) -> <<Len(core) * 80, Len(key)>>
      [] OTHER -> <<Cardinality(WordSet(key) \cap WordSet(core)) * 60,
                    Max(Cardinality(WordSet(key)), Cardinality(WordSet(core)))>>

\* a/b > n
FracAbove(f, n) == f[1] > n * f[2]

\* a/b >= c/d
FracGE(f, g) == f[1] * g[2] >= g[1] * f[2]

\* expected title e has neither an exact nor a core match among the headings
Unmatched(ls, e) ==
    /\ HeadingsFor(ls, StrLower(e)) = {}
    /\ HeadingsFor(ls, StrLower(CoreTitle(e))) = {}

\* the keys in the order of their first heading
RECURSIVE KeysFrom(_, _, _)
KeysFrom(ls, h, acc) ==
    IF h > Len(ls) THEN acc
    ELSE IF IsHeadingLine(ls[h])
            /\ \A i \in 1..Len(acc) : acc[i] # StrLower(HeadingText(ls, h))
         THEN KeysFrom(ls, h + 1, Append(acc, StrLower(HeadingText(ls, h))))
         ELSE KeysFrom(ls, h + 1, acc)

KeysInOrder(ls) == KeysFrom(ls, 1, <<>>)

PlaceholderText == <<"*","C","o","n","t","e","n","t"," ","f","o","r"," ","t","h","i","s"," ","s","e","c","t","i","o","n"," ","w","a","s"," ","n","o","t"," ","g","e","n","e","r","a","t","e","d",".","*">>

DocOf == SplitLines(full_markdown)

-----------------------------------------------------------------------------
(* ai_service.py: the error messages, generate_section_content and the     *)
(* two planners; routers/projects.py: plan_project_from_prompt.            *)
(* An Optional value is <<>> for None and <<v>> for v.  "WARN" stands for  *)
(* the warning sign that opens every message.                              *)

\* APIError.no_api_key()
NoApiKey ==
    <<"WARN"," ","E","r","r","o","r",":"," ","G","E","M","I","N","I","_",
      "A","P","I","_","K","E","Y"," ","n","o","t"," ","c","o","n","f","i",
      "g","u","r","e","d","."," ","P","l","e","a","s","e"," ","s","e","t",
      " ","y","o","u","r"," ","A","P","I"," ","k","e","y"," ","i","n"," ",
      "t","h","e"," ",".","e","n","v"," ","f","i","l","e",".">>

\* APIError.rate_limit()
RateLimit ==
    <<"WARN"," ","A","P","I"," ","r","a","t","e"," ","l","i","m","i","t",
      " ","r","e","a","c","h","e","d","."," ","T","h","e"," ","f","r","e",
      "e"," ","t","i","e","r"," ","a","l","l","o","w","s"," ","1","5"," ",
      "r","e","q","u","e","s","t","s"," ","p","e","r"," ","m","i","n","u",
      "t","e","."," ","P","l","e","a","s","e"," ","w","a","i","t"," ","a",
      " ","m","o","m","e","n","t"," ","a","n","d"," ","t","r","y"," ","a",
      "g","a","i","n",".">>

\* APIError.generation_error(error)
GenerationError(error) ==
    <<"WARN"," ","E","r","r","o","r"," ","g","e","n","e","r","a","t","i","n","g"," ","c","o","n","t","e","n","t",":"," ">>
    \o error \o
    <<"."," ","P","l","e","a","s","e"," ","t","r","y"," ","a","g","a","i","n",".">>

RateLimitKeywords ==
    { <<"4","2","9">>,
      <<"q","u","o","t","a">>,
      <<"r","a","t","e"," ","l","i","m","i","t">>,
      <<"t","o","o"," ","m","a","n","y"," ","r","e","q","u","e","s","t","s">> }

\* APIError.is_rate_limit(error_msg)
IsRateLimit(error_msg) ==
    \E keyword \in RateLimitKeywords : IsSubstr(keyword, StrLower(error_msg))

\* str(e) of the exceptions the AI call raises
ErrorMessages ==
    { <<"4","2","9"," ","x">>,
      <<"Q","u","o","t","a">>,
      <<"b","o","o","m">>,
      <<>> }

\* what model.generate_content does: it returns a text or raises
AIReplies ==
    {[raised |-> FALSE, text |-> x] : x \in PlannerTexts}
    \cup {[raised |-> TRUE, text |-> m] : m \in ErrorMessages}

TitleKey == <<"t","i","t","l","e">>

ErrorKey == <<"e","r","r","o","r">>

\* lines 439-449 as a fold over the lines
RECURSIVE ScanLines(_, _, _, _)
ScanLines(st, ls, k, ct) ==
    IF k > Len(ls) THEN st
    ELSE ScanLines(ScanLine(st, ls[k], ct), ls, k + 1, ct)

\* _parse_structure_response as one function: {"title": ..., content_type: ...}
ParseStructureResponse(response_text, ct) ==
    LET st == ScanLines([title |-> <<>>, items |-> <<>>,
                         in_items_section |-> FALSE],
                        SplitLines(response_text), 1, ct)
    IN  << [key |-> TitleKey,
            val |-> IF st.title = <<>> THEN DefaultTitle(ct) ELSE st.title],
           [key |-> ct,
            val |-> IF st.items = <<>> THEN DefaultItems(ct) ELSE st.items] >>

\* the dict the planners return when the AI call raises (lines 300-304, 373-377)
FallbackStructure(ct, error_msg) ==
    IF ct = Slides
    THEN << [key |-> TitleKey, val |-> <<"U","n","t","i","t","l","e","d"," ","P","r","e","s","e","n","t","a","t","i","o","n">>],
            [key |-> Slides, val |->
            << <<"O","p","e","n","i","n","g"," ","S","l","i","d","e">>,
               <<"M","a","i","n"," ","C","o","n","t","e","n","t">>,
               <<"K","e","y"," ","T","a","k","e","a","w","a","y","s">>,
               <<"C","l","o","s","i","n","g">> >>],
            [key |-> ErrorKey, val |-> error_msg] >>
    ELSE << [key |-> TitleKey, val |-> <<"U","n","t","i","t","l","e","d"," ","D","o","c","u","m","e","n","t">>],
            [key |-> SectionsType, val |->
            << <<"I","n","t","r","o","d","u","c","t","i","o","n">>,
               <<"B","a","c","k","g","r","o","u","n","d">>,
               <<"M","a","i","n"," ","D","i","s","c","u","s","s","i","o","n">>,
               <<"A","n","a","l","y","s","i","s">>,
               <<"C","o","n","c","l","u","s","i","o","n">> >>],
            [key |-> ErrorKey, val |-> error_msg] >>

\* the content type the planner of a project type parses for
PlanContentType(type) == IF type = "pptx" THEN Slides ELSE SectionsType

\* dict.get(key, default)
DictGetOr(d, k, default) == IF DictHas(d, k) THEN DictGet(d, k) ELSE default

PlanInputs ==
    /\ api_key \in BOOLEAN
    /\ plan_kind \in {"plan", "section"}
    /\ plan_type \in {"pptx", "docx"}
    /\ structure = <<>>
    /\ plan_response = <<>>
    /\ section_text = <<>>
    /\ plpc = "start"

InitPlan ==
    PlanInputs /\ IdleCore /\ IdleInline /\ IdleSlide /\ IdleExport /\ IdleCrud
    /\ IdleLate

\* plan_*_structure without an API key (lines 289-290, 362-363)
PlanNoKey ==
    /\ plpc = "start"
    /\ plan_kind = "plan"
    /\ ~api_key
    /\ structure' = << [key |-> ErrorKey, val |-> NoApiKey] >>
    /\ plpc' = "respond"
    /\ UNCHANGED <<api_key, plan_kind, plan_type, plan_response, section_text>>
    /\ UNCHANGED <<coreVars, lateVars, inlineVars, slideVars, exportVars, crudVars>>

\* plan_*_structure with an API key (lines 292-304, 365-377): the reply is
\* parsed, and any exception gives the fixed outline with the error text
PlanCallAI ==
    /\ plpc = "start"
    /\ plan_kind = "plan"
    /\ api_key
    /\ \E reply \in AIReplies :
          structure' =
             IF reply.raised
             THEN FallbackStructure(PlanContentType(plan_type), reply.text)
             ELSE ParseStructureResponse(Strip(reply.text),
                                         PlanContentType(plan_type))
    /\ plpc' = "respond"
    /\ UNCHANGED <<api_key, plan_kind, plan_type, plan_response, section_text>>
    /\ UNCHANGED <<coreVars, lateVars, inlineVars, slideVars, exportVars, crudVars>>

\* plan_project_from_prompt, lines 84-89 and 93-98: the response body
PlanRespond ==
    /\ plpc = "respond"
    /\ plan_response' =
          [title |-> DictGetOr(structure, TitleKey,
                               DefaultTitle(PlanContentType(plan_type))),
           sections |-> DictGetOr(structure, PlanContentType(plan_type), <<>>),
           type |-> plan_type,
           error |-> IF DictHas(structure, ErrorKey)
                     THEN <<DictGet(structure, ErrorKey)>> ELSE <<>>]
    /\ plpc' = "done"
    /\ UNCHANGED <<api_key, plan_kind, plan_type, structure, section_text>>
    /\ UNCHANGED <<coreVars, lateVars, inlineVars, slideVars, exportVars, crudVars>>

\* generate_section_content without an API key (lines 115-116)
SectionNoKey ==
    /\ plpc = "start"
    /\ plan_kind = "section"
    /\ ~api_key
    /\ section_text' = NoApiKey
    /\ plpc' = "done"
    /\ UNCHANGED <<api_key, plan_kind, plan_type, structure, plan_response>>
    /\ UNCHANGED <<coreVars, lateVars, inlineVars, slideVars, exportVars, crudVars>>

\* generate_section_content with an API key (lines 118-131)
SectionCallAI ==
    /\ plpc = "start"
    /\ plan_kind = "section"
    /\ api_key
    /\ \E reply \in AIReplies :
          section_text' =
             IF ~reply.raised THEN Strip(reply.text)
             ELSE IF IsRateLimit(reply.text) THEN RateLimit
             ELSE GenerationError(reply.text)
    /\ plpc' = "done"
    /\ UNCHANGED <<api_key, plan_kind, plan_type, structure, plan_response>>
    /\ UNCHANGED <<coreVars, lateVars, inlineVars, slideVars, exportVars, crudVars>>

NextPlan ==
    \/ PlanNoKey
    \/ PlanCallAI
    \/ PlanRespond
    \/ SectionNoKey
    \/ SectionCallAI

SpecPlan == InitPlan /\ [][NextPlan]_vars

-----------------------------------------------------------------------------
(* doc_generator.py: parse_markdown_line.  The paragraph is the sequence   *)
(* of runs [style, text] added to it.                                      *)

\* the backquote character, which a string of this language cannot hold
Backquote == "bq"

\* the first position p >= from where sub occurs in s, 0 when there is none
FirstAt(s, sub, from) ==
    LET at == {p \in from..(Len(s) - Len(sub) + 1) :
                 SubSeq(s, p, p + Len(sub) - 1) = sub}
    IN  IF at = {} THEN 0 ELSE CHOOSE p \in at : \A q \in at : p <= q

\* the last position of the match of
\*   (\*\*.*?\*\*|\*.*?\*|BQ.*?BQ|\[.*?\]\(.*?\))    (BQ: the backquote)
\* that starts at position p, 0 when none does: the alternatives are tried
\* in order and every .*? takes the shortest text that lets the rest match
MatchEndAt(s, p) ==
    LET bold == IF p < Len(s) /\ s[p] = "*" /\ s[p + 1] = "*"
                THEN FirstAt(s, <<"*","*">>, p + 2) ELSE 0
        ital == IF s[p] = "*" THEN FirstAt(s, <<"*">>, p + 1) ELSE 0
        code == IF s[p] = Backquote THEN FirstAt(s, <<Backquote>>, p + 1) ELSE 0
        mid  == IF s[p] = "[" THEN FirstAt(s, <<"]","(">>, p + 1) ELSE 0
        link == IF mid # 0 THEN FirstAt(s, <<")">>, mid + 2) ELSE 0
    IN  IF bold # 0 THEN bold + 1
        ELSE IF ital # 0 THEN ital
        ELSE IF code # 0 THEN code
        ELSE link

\* re.split(pattern, text) from position `from`: gap, span, gap, ..., gap
RECURSIVE InlineSplitFrom(_, _)
InlineSplitFrom(s, from) ==
    LET starts == {p \in from..Len(s) : MatchEndAt(s, p) # 0}
    IN  IF starts = {} THEN <<SubSeq(s, from, Len(s))>>
        ELSE LET p == CHOOSE x \in starts : \A y \in starts : x <= y
                 end == MatchEndAt(s, p)
             IN  << SubSeq(s, from, p - 1), SubSeq(s, p, end) >>
                 \o InlineSplitFrom(s, end + 1)

EndsWith(s, suffix) ==
    /\ Len(s) >= Len(suffix)
    /\ SubSeq(s, Len(s) - Len(suffix) + 1, Len(s)) = suffix

\* part[a:-b]
Slice(part, a, b) ==
    IF a + 1 > Len(part) - b THEN <<>> ELSE SubSeq(part, a + 1, Len(part) - b)

\* lines 26-54: the runs one non-empty part adds, none or one
RunsOf(part) ==
    IF StartsWith(part, <<"*","*">>) /\ EndsWith(part, <<"*","*">>)
    THEN << [style |-> "bold", text |-> Slice(part, 2, 2)] >>
    ELSE IF /\ StartsWith(part, <<"*">>) /\ EndsWith(part, <<"*">>)
            /\ ~StartsWith(part, <<"*","*">>)
    THEN << [style |-> "italic", text |-> Slice(part, 1, 1)] >>
    ELSE IF StartsWith(part, <<Backquote>>) /\ EndsWith(part, <<Backquote>>)
    THEN << [style |-> "code", text |-> Slice(part, 1, 1)] >>
    ELSE IF StartsWith(part, <<"[">>) /\ IsSubstr(<<"]","(">>, part)
    THEN \* re.match(r'\[(.*?)\]\((.*?)\)', part)
         LET mid == FirstAt(part, <<"]","(">>, 2)
         IN  IF mid # 0 /\ FirstAt(part, <<")">>, mid + 2) # 0
             THEN << [style |-> "link", text |-> SubSeq(part, 2, mid - 1)] >>
             ELSE <<>>
    ELSE << [style |-> "plain", text |-> part] >>

\* lines 21-54 as a fold over the parts
RECURSIVE RunsOfParts(_, _)
RunsOfParts(parts, k) ==
    IF k > Len(parts) THEN <<>>
    ELSE (IF parts[k] = <<>> THEN <<>> ELSE RunsOf(parts[k]))
         \o RunsOfParts(parts, k + 1)

\* parse_markdown_line as one function: the runs added to the paragraph
ParseMarkdownLine(line) == RunsOfParts(InlineSplitFrom(line, 1), 1)

InlineTokens ==
    { <<"*","*">>, <<"*">>, <<Backquote>>, <<"[","a">>, <<"]","(">>, <<")">>,
      <<"a">> }

ExampleLine ==
    <<"*","*","b","o","l","d","*","*"," ","a","n","d"," ","*","i","t","a",
      "l","i","c","*"," ","a","n","d"," ",Backquote,"c","o","d","e",Backquote," ","a",
      "n","d"," ","[","l","i","n","k","]","(","h","t","t","p",":","/","/",
      "x",")">>

RECURSIVE Concat(_)
Concat(ss) == IF ss = <<>> THEN <<>> ELSE Head(ss) \o Concat(Tail(ss))

InlineTexts ==
    {Concat(ts) : ts \in SeqsUpTo(InlineTokens, MaxInlineTokens)}
    \cup {ExampleLine}

InlineInputs ==
    /\ md_text \in InlineTexts
    /\ md_parts = <<>>
    /\ md_part_no = 1
    /\ md_runs = <<>>
    /\ ipc = "start"

InitInline ==
    InlineInputs /\ IdleCore /\ IdlePlan /\ IdleSlide /\ IdleExport /\ IdleCrud
    /\ IdleLate

\* line 19
InlineSplit ==
    /\ ipc = "start"
    /\ md_parts' = InlineSplitFrom(md_text, 1)
    /\ ipc' = "loop"
    /\ UNCHANGED <<md_text, md_part_no, md_runs>>
    /\ UNCHANGED <<coreVars, lateVars, planVars, slideVars, exportVars, crudVars>>

\* lines 21-54: one iteration of `for part in parts`
InlinePart ==
    /\ ipc = "loop"
    /\ md_part_no <= Len(md_parts)
    /\ md_runs' = IF md_parts[md_part_no] = <<>> THEN md_runs
                  ELSE md_runs \o RunsOf(md_parts[md_part_no])
    /\ md_part_no' = md_part_no + 1
    /\ UNCHANGED <<md_text, md_parts, ipc>>
    /\ UNCHANGED <<coreVars, lateVars, planVars, slideVars, exportVars, crudVars>>

\* the loop is over: the function returns
InlineReturn ==
    /\ ipc = "loop"
    /\ md_part_no > Len(md_parts)
    /\ ipc' = "done"
    /\ UNCHANGED <<md_text, md_parts, md_part_no, md_runs>>
    /\ UNCHANGED <<coreVars, lateVars, planVars, slideVars, exportVars, crudVars>>

NextInline == InlineSplit \/ InlinePart \/ InlineReturn

SpecInline == InitInline /\ [][NextInline]_vars

-----------------------------------------------------------------------------
(* doc_generator.py: parse_slide_content.                                  *)

ContentTag == <<"C","O","N","T","E","N","T",":">>

ImageTag ==
    <<"I","M","A","G","E","_","S","U","G","G","E","S","T","I","O","N",":">>

\* speaker_note_keywords (line 362)
SpeakerNoteKeywords ==
    { <<"S","P","E","A","K","E","R","_","N","O","T","E","S",":">>,
      <<"N","O","T","E","S",":">>,
      <<"S","P","E","A","K","E","R",":">>,
      <<"N","O","T","E",":">> }

\* the characters lstrip removes in lines 331 and 381: the three characters
\* the source spells the bullet sign with, the dash and the asterisk
BulletStripChars == {"a-circumflex", "euro", "cent", "-", "*"}

\* line.lstrip(chars)
LStripChars(s, chars) ==
    LET keep == {k \in 1..Len(s) : s[k] \notin chars}
    IN  IF keep = {} THEN <<>>
        ELSE SubSeq(s, CHOOSE k \in keep : \A j \in keep : k <= j, Len(s))

\* the bullet a content line contributes (line 381): <<>> when nothing is left
BulletOf(line) == Strip(LStripChars(line, BulletStripChars))

EmptySlide == [title |-> <<>>, bullets |-> <<>>, image_suggestion |-> <<>>]

\* mutant of SlideLine: a speaker-note line is skipped and leaves the flag
SlideLineKeepsFlag(st, raw) ==
    LET line == Strip(raw)
    IN  IF \E keyword \in SpeakerNoteKeywords :
              StartsWith(StrUpper(line), keyword)
        THEN st
        ELSE IF StartsWith(line, TitleTag)
        THEN [st EXCEPT !.result.title = Strip(RemoveAll(line, TitleTag))]
        ELSE IF StartsWith(line, ContentTag)
        THEN [st EXCEPT !.in_content_section = TRUE]
        ELSE IF StartsWith(line, ImageTag)
        THEN [st EXCEPT !.result.image_suggestion =
                            Strip(RemoveAll(line, ImageTag)),
                        !.in_content_section = FALSE]
        ELSE IF st.in_content_section /\ line # <<>> /\ BulletOf(line) # <<>>
        THEN [st EXCEPT !.result.bullets = Append(@, BulletOf(line))]
        ELSE st

\* lines 365-383: the body of `for line in lines`, on
\* st = [result, in_content_section]
SlideLine(st, raw) ==
    LET line == Strip(raw)
    IN  IF \E keyword \in SpeakerNoteKeywords :
              StartsWith(StrUpper(line), keyword)
        THEN [st EXCEPT !.in_content_section = FALSE]
        ELSE IF StartsWith(line, TitleTag)
        THEN [st EXCEPT !.result.title = Strip(RemoveAll(line, TitleTag))]
        ELSE IF StartsWith(line, ContentTag)
        THEN [st EXCEPT !.in_content_section = TRUE]
        ELSE IF StartsWith(line, ImageTag)
        THEN [st EXCEPT !.result.image_suggestion =
                            Strip(RemoveAll(line, ImageTag)),
                        !.in_content_section = FALSE]
        ELSE IF st.in_content_section /\ line # <<>> /\ BulletOf(line) # <<>>
        THEN [st EXCEPT !.result.bullets = Append(@, BulletOf(line))]
        ELSE st

RECURSIVE SlideLines(_, _, _)
SlideLines(st, ls, k) ==
    IF k > Len(ls) THEN st ELSE SlideLines(SlideLine(st, ls[k]), ls, k + 1)

\* parse_slide_content as one function
ParseSlideContent(content) ==
    IF content = <<>> THEN EmptySlide
    ELSE SlideLines([result |-> EmptySlide, in_content_section |-> FALSE],
                    SplitLines(content), 1).result

SlideLineKinds ==
    { <<"T","I","T","L","E",":"," ","T">>,
      <<"C","O","N","T","E","N","T",":">>,
      <<"-"," ","a">>,
      <<>>,
      <<"N","o","t","e",":"," ","n">>,
      <<"I","M","A","G","E","_","S","U","G","G","E","S","T","I","O","N",":"," ","i">> }

SlideContents == {Join(ls) : ls \in SeqsUpTo(SlideLineKinds, MaxSlideLines)}

SlideInputs ==
    /\ slide_content \in SlideContents
    /\ slide_lines = <<>>
    /\ slide_line_no = 1
    /\ in_content_section = FALSE
    /\ slide_result = EmptySlide
    /\ spc = "start"

InitSlide ==
    SlideInputs /\ IdleCore /\ IdlePlan /\ IdleInline /\ IdleExport /\ IdleCrud
    /\ IdleLate

\* lines 349-359: empty content returns at once
SlideStart ==
    /\ spc = "start"
    /\ IF slide_content = <<>>
       THEN spc' = "done" /\ UNCHANGED slide_lines
       ELSE spc' = "scan" /\ slide_lines' = SplitLines(slide_content)
    /\ UNCHANGED <<slide_content, slide_line_no, in_content_section,
                   slide_result>>
    /\ UNCHANGED <<coreVars, lateVars, planVars, inlineVars, exportVars, crudVars>>

\* lines 364-383: one iteration of `for line in lines`
SlideScan ==
    /\ spc = "scan"
    /\ slide_line_no <= Len(slide_lines)
    /\ LET st == SlideLine([result |-> slide_result,
                            in_content_section |-> in_content_section],
                           slide_lines[slide_line_no])
       IN  /\ slide_result' = st.result
           /\ in_content_section' = st.in_content_section
    /\ slide_line_no' = slide_line_no + 1
    /\ UNCHANGED <<slide_content, slide_lines, spc>>
    /\ UNCHANGED <<coreVars, lateVars, planVars, inlineVars, exportVars, crudVars>>

\* line 385
SlideReturn ==
    /\ spc = "scan"
    /\ slide_line_no > Len(slide_lines)
    /\ spc' = "done"
    /\ UNCHANGED <<slide_content, slide_lines, slide_line_no,
                   in_content_section, slide_result>>
    /\ UNCHANGED <<coreVars, lateVars, planVars, inlineVars, exportVars, crudVars>>

NextSlide == SlideStart \/ SlideScan \/ SlideReturn

SpecSlide == InitSlide /\ [][NextSlide]_vars

-----------------------------------------------------------------------------
(* doc_generator.py: create_docx and create_pptx.  The document is the     *)
(* sequence of the elements added to it; an element of create_docx records *)
(* the section (0: title page and table of contents) and the 0-based line  *)
(* it was made from and the path that made it.  A text that python-docx    *)
(* is given empty gets no run.                                             *)

Digits == {"0","1","2","3","4","5","6","7","8","9"}

\* s.split(sep) for a non-empty separator
RECURSIVE SplitOn(_, _)
SplitOn(s, sep) ==
    LET at == FirstAt(s, sep, 1)
    IN  IF at = 0 THEN <<s>>
        ELSE <<SubSeq(s, 1, at - 1)>>
             \o SplitOn(SubSeq(s, at + Len(sep), Len(s)), sep)

\* section.content or default (content is <<>> for None, <<s>> for a str)
ContentOr(content, default) ==
    IF content = <<>> \/ content[1] = <<>> THEN default ELSE content[1]

NoContentYet ==
    <<"N","o"," ","c","o","n","t","e","n","t"," ","g","e","n","e","r","a",
      "t","e","d"," ","y","e","t",".">>

\* mutant of IsMarkdown: only the heading marker is looked for
IsMarkdownHeadingsOnly(content) == IsSubstr(<<"#","#">>, content)

\* line 169
IsMarkdown(content) ==
    \/ IsSubstr(<<"#","#">>, content)
    \/ IsSubstr(<<"*","*">>, content)
    \/ IsSubstr(<<"*">>, content)

Element(sec, ln, path, kind, content_text, runs) ==
    [sec |-> sec, line |-> ln, path |-> path, kind |-> kind,
     text |-> content_text, runs |-> runs, header |-> <<>>, rows |-> <<>>]

\* doc.add_heading(text, level): the heading has a run only for a text
Heading(sec, ln, path, kind, heading_text) ==
    Element(sec, ln, path, kind, heading_text,
            IF heading_text = <<>> THEN <<>>
            ELSE << [style |-> "plain", text |-> heading_text] >>)

\* a paragraph made empty and filled by parse_markdown_line
MarkdownParagraph(sec, ln, kind, line_text) ==
    Element(sec, ln, "markdown", kind, line_text, ParseMarkdownLine(line_text))

\* re.match(r'^\d+\.\s', line): the length of the match, 0 when there is none
OrderedPrefix(line) ==
    LET ds == {d \in 1..(Len(line) - 2) :
                 /\ \A k \in 1..d : line[k] \in Digits
                 /\ line[d + 1] = "."
                 /\ IsSpace(line[d + 2])}
    IN  IF ds = {} THEN 0 ELSE (CHOOSE d \in ds : TRUE) + 2

\* line 249
IsTableStart(line) ==
    /\ StartsWith(line, <<"|">>)
    /\ \E k \in 2..Len(line) : line[k] = "|"

\* lines 256-263: the 0-based index where the inner loop stops collecting
\* rows, len(lines) when every following line is a row
RunStop(ls, i) ==
    LET stops == {j \in (i + 1)..(Len(ls) - 1) :
                    ~StartsWith(Strip(ls[j + 1]), <<"|">>)}
    IN  IF stops = {} THEN Len(ls)
        ELSE CHOOSE j \in stops : \A k \in stops : j <= k

\* mutant of CursorAfterRun: the cursor is not stepped back
CursorAfterRunNoStepBack(ls, stop) == stop

\* the cursor when the inner loop is left (line 262 steps it back onto the
\* last row when a line that is no row was read)
CursorAfterRun(ls, stop) == IF stop < Len(ls) THEN stop - 1 ELSE stop

\* [cell.strip() for cell in row.split('|')[1:-1]]
Cells(row) ==
    LET ps == SplitOn(row, <<"|">>)
    IN  [k \in 1..(Len(ps) - 2) |-> Strip(ps[k + 1])]

\* mutant of DataRowsFrom: the rows are read from the second one on
RECURSIVE DataRowsFromSecond(_, _)
DataRowsFromSecond(table_rows, k) ==
    IF k - 1 > Len(table_rows) THEN <<>>
    ELSE LET cells == Cells(table_rows[k - 1])
         IN  (IF cells # <<>> /\ \E c \in 1..Len(cells) : cells[c] # <<>>
              THEN <<cells>> ELSE <<>>)
             \o DataRowsFromSecond(table_rows, k + 1)

\* lines 271-275 from row k on (1-based): the rows with a non-blank cell
RECURSIVE DataRowsFrom(_, _)
DataRowsFrom(table_rows, k) ==
    IF k > Len(table_rows) THEN <<>>
    ELSE LET cells == Cells(table_rows[k])
         IN  (IF cells # <<>> /\ \E c \in 1..Len(cells) : cells[c] # <<>>
              THEN <<cells>> ELSE <<>>)
             \o DataRowsFrom(table_rows, k + 1)

\* lines 266-301: what a collected run adds to the document
TableElements(sec, ln, table_rows) ==
    IF Len(table_rows) < 2 THEN <<>>
    ELSE LET header_cells == Cells(table_rows[1])
             data_rows == DataRowsFrom(table_rows, 3)
         IN  IF header_cells = <<>> \/ data_rows = <<>> THEN <<>>
             ELSE << [Element(sec, ln, "markdown", "table", <<>>, <<>>)
                        EXCEPT !.header = header_cells,
                               !.rows =
                                 [r \in 1..Len(data_rows) |->
                                    [c \in 1..Len(header_cells) |->
                                       IF c <= Len(data_rows[r])
                                       THEN data_rows[r][c] ELSE <<>>]]],
                     Element(sec, ln, "markdown", "spacer", <<>>, <<>>) >>

\* lines 176-311: one iteration of `while i < len(lines)` at cursor i:
\* the elements added, the lines consumed and the cursor after `i += 1`
DispatchLine(ls, i, sec) ==
    LET line == Strip(ls[i + 1])
        one(elems) == [elems |-> elems, consumed |-> <<i>>, next |-> i + 1]
    IN  IF line = <<>> THEN one(<<>>)
        ELSE IF StartsWith(line, <<"#","#"," ">>)
        THEN one(<<Heading(sec, i, "markdown", "h1",
                           Strip(SubSeq(line, 4, Len(line))))>>)
        ELSE IF StartsWith(line, <<"#","#","#"," ">>)
        THEN one(<<Heading(sec, i, "markdown", "h2",
                           Strip(SubSeq(line, 5, Len(line))))>>)
        ELSE IF StartsWith(line, <<"#","#","#","#"," ">>)
        THEN one(<<Heading(sec, i, "markdown", "h3",
                           Strip(SubSeq(line, 6, Len(line))))>>)
        ELSE IF StartsWith(line, <<"-"," ">>) \/ StartsWith(line, <<"*"," ">>)
        THEN one(<<MarkdownParagraph(sec, i, "bullet",
                                     Strip(SubSeq(line, 3, Len(line))))>>)
        ELSE IF OrderedPrefix(line) # 0
        THEN one(<<MarkdownParagraph(sec, i, "number",
                       Strip(SubSeq(line, OrderedPrefix(line) + 1,
                                    Len(line))))>>)
        ELSE IF StartsWith(line, <<">"," ">>)
        THEN one(<<MarkdownParagraph(sec, i, "quote",
                                     Strip(SubSeq(line, 3, Len(line))))>>)
        ELSE IF IsTableStart(line)
        THEN LET stop == RunStop(ls, i)
                 table_rows == [k \in 1..(stop - i) |-> Strip(ls[i + k])]
             IN  [elems |-> TableElements(sec, i, table_rows),
                  consumed |-> [k \in 1..(stop - i) |-> i + k - 1],
                  next |-> CursorAfterRun(ls, stop) + 1]
        ELSE one(<<MarkdownParagraph(sec, i, "para", line)>>)

\* the three characters the source spells the bullet sign with
BulletSign == <<"a-circumflex", "euro", "cent">>

\* lines 327-335: the bullets of one legacy paragraph
RECURSIVE LegacyBullets(_, _, _)
LegacyBullets(sec, ls, k) ==
    IF k > Len(ls) THEN <<>>
    ELSE (IF BulletOf(Strip(ls[k])) # <<>>
          THEN <<Element(sec, 0, "legacy", "bullet", BulletOf(Strip(ls[k])),
                         << [style |-> "plain",
                             text |-> BulletOf(Strip(ls[k]))] >>)>>
          ELSE <<>>)
         \o LegacyBullets(sec, ls, k + 1)

\* lines 322-340: the paragraphs of a legacy section from the k-th on
RECURSIVE LegacyParagraphs(_, _, _)
LegacyParagraphs(sec, paragraphs, k) ==
    IF k > Len(paragraphs) THEN <<>>
    ELSE LET para_text == Strip(paragraphs[k])
         IN  (IF para_text = <<>> THEN <<>>
              ELSE IF \/ StartsWith(para_text, BulletSign)
                      \/ StartsWith(para_text, <<"-">>)
                      \/ StartsWith(para_text, <<"*">>)
              THEN LegacyBullets(sec, SplitLines(para_text), 1)
              ELSE <<Element(sec, 0, "legacy", "para", para_text,
                             << [style |-> "plain", text |-> para_text] >>)>>)
             \o LegacyParagraphs(sec, paragraphs, k + 1)

\* lines 131-144: the table-of-contents entries of one section
RECURSIVE TocOfLines(_, _)
TocOfLines(ls, k) ==
    IF k > Len(ls) THEN <<>>
    ELSE LET stripped == Strip(ls[k])
         IN  (IF /\ StartsWith(stripped, <<"#","#"," ">>)
                 /\ ~StartsWith(stripped, <<"#","#","#">>)
              THEN <<Element(0, k - 1, "front", "toc1",
                             Strip(SubSeq(stripped, 4, Len(stripped))), <<>>)>>
              ELSE IF StartsWith(stripped, <<"#","#","#"," ">>)
              THEN <<Element(0, k - 1, "front", "toc2",
                             Strip(SubSeq(stripped, 5, Len(stripped))), <<>>)>>
              ELSE <<>>)
             \o TocOfLines(ls, k + 1)

RECURSIVE TocEntries(_, _)
TocEntries(secs, k) ==
    IF k > Len(secs) THEN <<>>
    ELSE (IF IsSubstr(<<"#","#">>, ContentOr(secs[k].content, <<>>))
          THEN TocOfLines(SplitLines(ContentOr(secs[k].content, <<>>)), 1)
          ELSE <<>>)
         \o TocEntries(secs, k + 1)

\* sorted(project.sections, key=lambda x: x.orderIndex): a stable sort
RECURSIVE SortByOrder(_)
SortByOrder(secs) ==
    IF secs = <<>> THEN <<>>
    ELSE LET k == CHOOSE a \in 1..Len(secs) :
                     \A b \in 1..Len(secs) :
                        \/ secs[a].orderIndex < secs[b].orderIndex
                        \/ secs[a].orderIndex = secs[b].orderIndex /\ a <= b
         IN  <<secs[k]>>
             \o SortByOrder([m \in 1..(Len(secs) - 1) |->
                               IF m < k THEN secs[m] ELSE secs[m + 1]])

\* mutant of Seek: the cursor stays where it is
SeekKeepsCursor(stream, pos) == stream

\* file_stream.seek(pos) of io.BytesIO
Seek(stream, pos) == [stream EXCEPT !.pos = pos]

\* the lines the contents of the checked sections are made of
DocLineKinds ==
    { <<"#","#"," ","H">>,
      <<"#","#","#"," ","S">>,
      <<"#","#">>,
      <<"*","i","*">>,
      <<"-"," ","b">>,
      <<"p">>,
      <<>> }

TableLineKinds ==
    { <<"|","*","a","*","|","b","|">>,
      <<"|","-","|","-","|">>,
      <<"|","1","|","2","|">>,
      <<"|"," ","|">>,
      <<"|","x">>,
      <<"*","p","*">> }

DocxContents ==
    {Join(ls) : ls \in SeqsUpTo(DocLineKinds, MaxDocLines)}
    \cup {Join(ls) : ls \in SeqsUpTo(TableLineKinds, MaxTableLines)}

Section(section_title, content, orderIndex) ==
    [title |-> section_title, content |-> content, orderIndex |-> orderIndex]

\* the project export_project finds, its sections in orderIndex order:
\* none, one of an unknown type, documents and presentations
ExportProjects ==
    { [type |-> "none", title |-> <<>>, sections |-> <<>>],
      [type |-> "other", title |-> <<"P">>, sections |-> <<>>],
      [type |-> "docx", title |-> <<"P">>, sections |-> <<>>],
      [type |-> "docx", title |-> <<"P">>,
       sections |-> << Section(<<"S">>, << <<"#","#"," ","H">> >>, 0),
                       Section(<<>>, << <<"*","i","*">> >>, 1),
                       Section(<<"S">>, <<>>, 1) >>] }
    \cup {[type |-> "docx", title |-> <<"P">>,
           sections |-> << Section(<<"S">>, <<c>>, 0) >>] :
             c \in DocxContents}
    \cup {[type |-> "docx", title |-> <<"P">>,
           sections |-> << Section(<<>>, c, 0) >>] :
             c \in {<<>>, << <<"p">> >>, << <<"#","#"," ","H">> >>}}
    \cup {[type |-> "pptx", title |-> <<"P">>,
           sections |-> << Section(<<"S">>, <<c>>, 0) >>] :
             c \in SlideContents}
    \cup {[type |-> "pptx", title |-> <<"P">>,
           sections |-> << Section(<<>>, <<>>, 0),
                           Section(<<"S">>, << <<"T","I","T","L","E",":"," ","T">> >>, 1) >>]}

ExportInputs ==
    /\ exp_project \in ExportProjects
    /\ exp_sections = <<>>
    /\ sec_no = 1
    /\ docx_lines = <<>>
    /\ line_i = 0
    /\ doc_path = "none"
    /\ doc_body = <<>>
    /\ visited = <<>>
    /\ file_stream = <<>>
    /\ exp_response = <<>>
    /\ epc = "start"

InitExport ==
    ExportInputs /\ IdleCore /\ IdlePlan /\ IdleInline /\ IdleSlide /\ IdleCrud
    /\ IdleLate

\* export.py lines 10-33: 404 without a project, 400 for an unknown type
ExportFind ==
    /\ epc = "start"
    /\ epc' = IF exp_project.type = "none" THEN "http404"
              ELSE IF exp_project.type = "docx" THEN "docx_front"
              ELSE IF exp_project.type = "pptx" THEN "pptx_front"
              ELSE "http400"
    /\ UNCHANGED <<exp_project, exp_sections, sec_no, docx_lines, line_i,
                   doc_path, doc_body, visited, file_stream, exp_response>>
    /\ UNCHANGED <<coreVars, lateVars, planVars, inlineVars, slideVars, crudVars>>

\* create_docx lines 62-165: the title page and the table of contents
DocxFront ==
    /\ epc = "docx_front"
    /\ exp_sections' = SortByOrder(exp_project.sections)
    /\ doc_body' =
          << Heading(0, 0, "front", "title", exp_project.title),
             Heading(0, 0, "front", "toc_heading",
                     <<"T","a","b","l","e"," ","o","f"," ","C","o","n","t",
                       "e","n","t","s">>) >>
          \o TocEntries(SortByOrder(exp_project.sections), 1)
    /\ sec_no' = 1
    /\ epc' = "docx_section"
    /\ UNCHANGED <<exp_project, docx_lines, line_i, doc_path, visited,
                   file_stream, exp_response>>
    /\ UNCHANGED <<coreVars, lateVars, planVars, inlineVars, slideVars, crudVars>>

\* lines 165-174: a section whose content is Markdown enters the line walker
DocxSectionMarkdown ==
    /\ epc = "docx_section"
    /\ sec_no <= Len(exp_sections)
    /\ LET content == ContentOr(exp_sections[sec_no].content, NoContentYet)
       IN  /\ IsMarkdown(content)
           /\ docx_lines' = SplitLines(content)
    /\ line_i' = 0
    /\ visited' = <<>>
    /\ doc_path' = "markdown"
    /\ epc' = "docx_line"
    /\ UNCHANGED <<exp_project, exp_sections, sec_no, doc_body, file_stream,
                   exp_response>>
    /\ UNCHANGED <<coreVars, lateVars, planVars, inlineVars, slideVars, crudVars>>

\* lines 165-171 and 312-340: a section of plain text; heading.runs[0] of
\* line 315 raises IndexError when the heading got no run
DocxSectionLegacy ==
    /\ epc = "docx_section"
    /\ sec_no <= Len(exp_sections)
    /\ LET section == exp_sections[sec_no]
           content == ContentOr(section.content, NoContentYet)
           heading == Heading(sec_no, 0, "legacy", "h1", section.title)
       IN  /\ ~IsMarkdown(content)
           /\ IF heading.runs = <<>>
              THEN /\ doc_body' = Append(doc_body, heading)
                   /\ epc' = "raised"
                   /\ UNCHANGED sec_no
              ELSE /\ doc_body' = Append(doc_body, heading)
                                  \o LegacyParagraphs(sec_no,
                                        SplitOn(content, <<NL, NL>>), 1)
                   /\ sec_no' = sec_no + 1
                   /\ UNCHANGED epc
    /\ doc_path' = "legacy"
    /\ UNCHANGED <<exp_project, exp_sections, docx_lines, line_i, visited,
                   file_stream, exp_response>>
    /\ UNCHANGED <<coreVars, lateVars, planVars, inlineVars, slideVars, crudVars>>

\* lines 175-311: one iteration of `while i < len(lines)`
DocxLine ==
    /\ epc = "docx_line"
    /\ line_i < Len(docx_lines)
    /\ LET r == DispatchLine(docx_lines, line_i, sec_no)
       IN  /\ doc_body' = doc_body \o r.elems
           /\ visited' = visited \o r.consumed
           /\ line_i' = r.next
    /\ UNCHANGED <<exp_project, exp_sections, sec_no, docx_lines, doc_path,
                   file_stream, exp_response, epc>>
    /\ UNCHANGED <<coreVars, lateVars, planVars, inlineVars, slideVars, crudVars>>

\* line 175: the walker is past the last line, the next section follows
DocxSectionEnd ==
    /\ epc = "docx_line"
    /\ line_i >= Len(docx_lines)
    /\ sec_no' = sec_no + 1
    /\ epc' = "docx_section"
    /\ UNCHANGED <<exp_project, exp_sections, docx_lines, line_i, doc_path,
                   doc_body, visited, file_stream, exp_response>>
    /\ UNCHANGED <<coreVars, lateVars, planVars, inlineVars, slideVars, crudVars>>

\* lines 342-343: the document is written into a new buffer
DocxSave ==
    /\ epc = "docx_section"
    /\ sec_no > Len(exp_sections)
    /\ file_stream' = [data |-> doc_body, pos |-> Len(doc_body)]
    /\ epc' = "docx_seek"
    /\ UNCHANGED <<exp_project, exp_sections, sec_no, docx_lines, line_i,
                   doc_path, doc_body, visited, exp_response>>
    /\ UNCHANGED <<coreVars, lateVars, planVars, inlineVars, slideVars, crudVars>>

\* line 344
DocxSeek ==
    /\ epc = "docx_seek"
    /\ file_stream' = Seek(file_stream, 0)
    /\ epc' = "docx_return"
    /\ UNCHANGED <<exp_project, exp_sections, sec_no, docx_lines, line_i,
                   doc_path, doc_body, visited, exp_response>>
    /\ UNCHANGED <<coreVars, lateVars, planVars, inlineVars, slideVars, crudVars>>

\* line 345 and export.py lines 25-27: the buffer is handed to the handler
DocxReturn ==
    /\ epc = "docx_return"
    /\ epc' = "respond"
    /\ UNCHANGED <<exp_project, exp_sections, sec_no, docx_lines, line_i,
                   doc_path, doc_body, visited, file_stream, exp_response>>
    /\ UNCHANGED <<coreVars, lateVars, planVars, inlineVars, slideVars, crudVars>>

\* create_pptx lines 388-415: the title slide
PptxFront ==
    /\ epc = "pptx_front"
    /\ exp_sections' = SortByOrder(exp_project.sections)
    /\ doc_body' = << [kind |-> "title_slide", title |-> exp_project.title,
                       bullets |-> <<>>, image_suggestion |-> <<>>,
                       layout |-> "title"] >>
    /\ sec_no' = 1
    /\ epc' = "pptx_slide"
    /\ UNCHANGED <<exp_project, docx_lines, line_i, doc_path, visited,
                   file_stream, exp_response>>
    /\ UNCHANGED <<coreVars, lateVars, planVars, inlineVars, slideVars, crudVars>>

\* lines 415-549: one iteration of the loop over the sections
PptxSlide ==
    /\ epc = "pptx_slide"
    /\ sec_no <= Len(exp_sections)
    /\ LET section == exp_sections[sec_no]
           parsed == ParseSlideContent(ContentOr(section.content, <<>>))
       IN  doc_body' =
              Append(doc_body,
                     [kind |-> "slide",
                      title |-> IF parsed.title # <<>> THEN parsed.title
                                ELSE section.title,
                      bullets |-> parsed.bullets,
                      image_suggestion |-> parsed.image_suggestion,
                      layout |-> IF parsed.image_suggestion # <<>>
                                 THEN "two_column" ELSE "full_width"])
    /\ sec_no' = sec_no + 1
    /\ UNCHANGED <<exp_project, exp_sections, docx_lines, line_i, doc_path,
                   visited, file_stream, exp_response, epc>>
    /\ UNCHANGED <<coreVars, lateVars, planVars, inlineVars, slideVars, crudVars>>

\* lines 551-552
PptxSave ==
    /\ epc = "pptx_slide"
    /\ sec_no > Len(exp_sections)
    /\ file_stream' = [data |-> doc_body, pos |-> Len(doc_body)]
    /\ epc' = "pptx_seek"
    /\ UNCHANGED <<exp_project, exp_sections, sec_no, docx_lines, line_i,
                   doc_path, doc_body, visited, exp_response>>
    /\ UNCHANGED <<coreVars, lateVars, planVars, inlineVars, slideVars, crudVars>>

\* line 553
PptxSeek ==
    /\ epc = "pptx_seek"
    /\ file_stream' = Seek(file_stream, 0)
    /\ epc' = "pptx_return"
    /\ UNCHANGED <<exp_project, exp_sections, sec_no, docx_lines, line_i,
                   doc_path, doc_body, visited, exp_response>>
    /\ UNCHANGED <<coreVars, lateVars, planVars, inlineVars, slideVars, crudVars>>

\* line 554 and export.py lines 29-31
PptxReturn ==
    /\ epc = "pptx_return"
    /\ epc' = "respond"
    /\ UNCHANGED <<exp_project, exp_sections, sec_no, docx_lines, line_i,
                   doc_path, doc_body, visited, file_stream, exp_response>>
    /\ UNCHANGED <<coreVars, lateVars, planVars, inlineVars, slideVars, crudVars>>

\* export.py lines 35-39: the response streams the buffer from its cursor
ExportRespond ==
    /\ epc = "respond"
    /\ exp_response' =
          [status |-> 200,
           body |-> SubSeq(file_stream.data, file_stream.pos + 1,
                           Len(file_stream.data))]
    /\ file_stream' = Seek(file_stream, Len(file_stream.data))
    /\ epc' = "done"
    /\ UNCHANGED <<exp_project, exp_sections, sec_no, docx_lines, line_i,
                   doc_path, doc_body, visited>>
    /\ UNCHANGED <<coreVars, lateVars, planVars, inlineVars, slideVars, crudVars>>

NextExport ==
    \/ ExportFind
    \/ DocxFront
    \/ DocxSectionMarkdown
    \/ DocxSectionLegacy
    \/ DocxLine
    \/ DocxSectionEnd
    \/ DocxSave
    \/ DocxSeek
    \/ DocxReturn
    \/ PptxFront
    \/ PptxSlide
    \/ PptxSave
    \/ PptxSeek
    \/ PptxReturn
    \/ ExportRespond

SpecExport == InitExport /\ [][NextExport]_vars

-----------------------------------------------------------------------------
(* create_project and the section endpoints of routers/sections.py over    *)
(* the project and documentsection tables.  A project row is [id, userId], *)
(* a section row is [id, projectId, orderIndex]; the titles and contents   *)
(* of the rows have no part in the ordering and are left out.  A request   *)
(* is handled in one step, as the requests are executed one at a time.     *)

\* the users that send requests
Users == {1, 2}

\* db.documentsection rows of one project
SectionsOf(rows, projectId) == {r \in rows : r.projectId = projectId}

\* db.documentsection.count(where={"projectId": ...})
SectionCount(rows, projectId) == Cardinality(SectionsOf(rows, projectId))

\* update_many(where=<the rows of selected>, data={"orderIndex": {"increment":
\* delta}}), a decrement being a negative delta
UpdateMany(rows, selected, delta) ==
    {IF r \in selected THEN [r EXCEPT !.orderIndex = @ + delta] ELSE r :
       r \in rows}

\* find_first(where={"projectId": ...}, order={"orderIndex": "desc"}): <<>>
\* when the project has no section
LastSection(rows, projectId) ==
    LET own == SectionsOf(rows, projectId)
    IN  IF own = {} THEN <<>>
        ELSE <<CHOOSE r \in own : \A q \in own : q.orderIndex <= r.orderIndex>>

\* find_unique(where={"id": ...}): <<>> when there is no such row
FindUnique(rows, id) ==
    IF \E r \in rows : r.id = id THEN <<CHOOSE r \in rows : r.id = id>>
    ELSE <<>>

\* the orderIndex given to an appended section
AppendIndex(rows, projectId) ==
    LET last_section == LastSection(rows, projectId)
    IN  IF last_section # <<>> THEN last_section[1].orderIndex + 1 ELSE 0

\* mutant of ShiftedDown: the row at the new index itself stays
ShiftedDownAfter(rows, projectId, new_order_index) ==
    {r \in SectionsOf(rows, projectId) : r.orderIndex > new_order_index}

\* where={"projectId": ..., "orderIndex": {"gte": new_order_index}}
ShiftedDown(rows, projectId, new_order_index) ==
    {r \in SectionsOf(rows, projectId) : r.orderIndex >= new_order_index}

\* mutant of IsLastSection: only a project without sections is protected
IsLastSectionNever(section_count) == section_count <= 0

\* the minimum section requirement of delete_section
IsLastSection(section_count) == section_count <= 1

\* mutant of ShiftedUp: no row is moved up
ShiftedUpNone(rows, projectId, deleted_order) == {}

\* where={"projectId": ..., "orderIndex": {"gt": deleted_order}}
ShiftedUp(rows, projectId, deleted_order) ==
    {r \in SectionsOf(rows, projectId) : r.orderIndex > deleted_order}

\* mutant of InvalidOrderIndex: only the upper end is checked
InvalidOrderIndexAbove(newOrderIndex, max_order) == newOrderIndex > max_order

\* the order index validation of reorder_section
InvalidOrderIndex(newOrderIndex, max_order) ==
    newOrderIndex < 0 \/ newOrderIndex > max_order

\* mutant of Between: the rows of every project are shifted
BetweenAnyProject(rows, projectId, old_order, new_order) ==
    IF new_order < old_order
    THEN {r \in rows : r.orderIndex >= new_order /\ r.orderIndex < old_order}
    ELSE {r \in rows : r.orderIndex > old_order /\ r.orderIndex <= new_order}

\* where orderIndex is {"gte": new_order, "lt": old_order} when the section
\* moves up and {"gt": old_order, "lte": new_order} when it moves down
Between(rows, projectId, old_order, new_order) ==
    IF new_order < old_order
    THEN {r \in SectionsOf(rows, projectId) :
            r.orderIndex >= new_order /\ r.orderIndex < old_order}
    ELSE {r \in SectionsOf(rows, projectId) :
            r.orderIndex > old_order /\ r.orderIndex <= new_order}

\* the rows that `for idx, title in enumerate(initial_sections)` creates, the
\* ids from first on
InitialRows(projectId, first, initial_sections) ==
    {[id |-> first + k, projectId |-> projectId, orderIndex |-> k] :
       k \in 0..(Len(initial_sections) - 1)}

\* the initial_sections of the create_project requests
InitialSectionLists == {<<>>, <<"A">>, <<"A", "B">>}

InitCrud ==
    IdleCrud /\ IdleCore /\ IdlePlan /\ IdleInline /\ IdleSlide /\ IdleExport
    /\ IdleLate

\* projects.py lines 40-73
CreateProject(user, initial_sections) ==
    /\ Cardinality(project_rows) < MaxProjects
    /\ next_id + Len(initial_sections) - 1 <= MaxSectionIds
    /\ LET db_project == [id |-> Cardinality(project_rows) + 1,
                          userId |-> user]
       IN  /\ project_rows' = project_rows \cup {db_project}
           /\ section_rows' =
                 section_rows
                 \cup InitialRows(db_project.id, next_id, initial_sections)
    /\ next_id' = next_id + Len(initial_sections)
    /\ crud_op' = "create_project"
    /\ http_status' = 200
    /\ project_updates' = {}
    /\ last_created' = <<>>
    /\ UNCHANGED <<coreVars, lateVars, planVars, inlineVars, slideVars, exportVars>>

\* sections.py lines 103-172; insertAfter is <<>> for None
CreateSection(user, projectId, insertAfter) ==
    /\ next_id <= MaxSectionIds
    /\ crud_op' = "create_section"
    /\ IF ~\E p \in project_rows : p.id = projectId /\ p.userId = user
       THEN /\ http_status' = 404
            /\ project_updates' = {}
            /\ last_created' = <<>>
            /\ UNCHANGED <<section_rows, next_id>>
       ELSE IF insertAfter # <<>> /\ insertAfter[1] # 0
       THEN LET after_section == FindUnique(section_rows, insertAfter[1])
            IN  IF \/ after_section = <<>>
                   \/ after_section[1].projectId # projectId
                THEN /\ http_status' = 400
                     /\ project_updates' = {}
                     /\ last_created' = <<>>
                     /\ UNCHANGED <<section_rows, next_id>>
                ELSE LET new_order_index == after_section[1].orderIndex + 1
                     IN  /\ section_rows' =
                               UpdateMany(section_rows,
                                          ShiftedDown(section_rows, projectId,
                                                      new_order_index), 1)
                               \cup {[id |-> next_id, projectId |-> projectId,
                                      orderIndex |-> new_order_index]}
                         /\ next_id' = next_id + 1
                         /\ http_status' = 200
                         /\ project_updates' = {projectId}
                         /\ last_created' = <<[id |-> next_id,
                                               orderIndex |-> new_order_index,
                                               before |-> section_rows,
                                               deleted |-> FALSE]>>
       ELSE /\ section_rows' =
                  section_rows
                  \cup {[id |-> next_id, projectId |-> projectId,
                         orderIndex |-> AppendIndex(section_rows, projectId)]}
            /\ next_id' = next_id + 1
            /\ http_status' = 200
            /\ project_updates' = {projectId}
            /\ last_created' = <<[id |-> next_id,
                                  orderIndex |->
                                     AppendIndex(section_rows, projectId),
                                  before |-> section_rows,
                                  deleted |-> FALSE]>>
    /\ UNCHANGED project_rows
    /\ UNCHANGED <<coreVars, lateVars, planVars, inlineVars, slideVars, exportVars>>

\* sections.py lines 175-234
DeleteSection(user, section_id) ==
    /\ crud_op' = "delete_section"
    /\ LET section == FindUnique(section_rows, section_id)
       IN  IF section = <<>>
           THEN /\ http_status' = 404
                /\ project_updates' = {}
                /\ last_created' = <<>>
                /\ UNCHANGED section_rows
           ELSE IF (CHOOSE p \in project_rows :
                      p.id = section[1].projectId).userId # user
           THEN /\ http_status' = 403
                /\ project_updates' = {}
                /\ last_created' = <<>>
                /\ UNCHANGED section_rows
           ELSE IF IsLastSection(SectionCount(section_rows,
                                              section[1].projectId))
           THEN /\ http_status' = 400
                /\ project_updates' = {}
                /\ last_created' = <<>>
                /\ UNCHANGED section_rows
           ELSE LET project_id == section[1].projectId
                    deleted_order == section[1].orderIndex
                    remaining == section_rows \ {section[1]}
                IN  /\ section_rows' =
                          UpdateMany(remaining,
                                     ShiftedUp(remaining, project_id,
                                               deleted_order), -1)
                    /\ http_status' = 200
                    /\ project_updates' = {project_id}
                    /\ last_created' =
                          IF /\ last_created # <<>>
                             /\ last_created[1].id = section_id
                             /\ ~last_created[1].deleted
                          THEN <<[last_created[1] EXCEPT !.deleted = TRUE]>>
                          ELSE <<>>
    /\ UNCHANGED <<project_rows, next_id>>
    /\ UNCHANGED <<coreVars, lateVars, planVars, inlineVars, slideVars, exportVars>>

\* sections.py lines 237-316
ReorderSection(user, section_id, newOrderIndex) ==
    /\ crud_op' = "reorder_section"
    /\ last_created' = <<>>
    /\ LET section == FindUnique(section_rows, section_id)
       IN  IF section = <<>>
           THEN /\ http_status' = 404
                /\ project_updates' = {}
                /\ UNCHANGED section_rows
           ELSE IF (CHOOSE p \in project_rows :
                      p.id = section[1].projectId).userId # user
           THEN /\ http_status' = 403
                /\ project_updates' = {}
                /\ UNCHANGED section_rows
           ELSE LET max_order ==
                        SectionCount(section_rows, section[1].projectId) - 1
                    old_order == section[1].orderIndex
                    new_order == newOrderIndex
                IN  IF InvalidOrderIndex(newOrderIndex, max_order)
                    THEN /\ http_status' = 400
                         /\ project_updates' = {}
                         /\ UNCHANGED section_rows
                    ELSE IF newOrderIndex = section[1].orderIndex
                    THEN /\ http_status' = 200
                         /\ project_updates' = {}
                         /\ UNCHANGED section_rows
                    ELSE /\ section_rows' =
                               {IF r.id = section_id
                                THEN [r EXCEPT !.orderIndex = new_order]
                                ELSE r :
                                  r \in UpdateMany(
                                          section_rows,
                                          Between(section_rows,
                                                  section[1].projectId,
                                                  old_order, new_order),
                                          IF new_order < old_order
                                          THEN 1 ELSE -1)}
                         /\ http_status' = 200
                         /\ project_updates' = {section[1].projectId}
    /\ UNCHANGED <<project_rows, next_id>>
    /\ UNCHANGED <<coreVars, lateVars, planVars, inlineVars, slideVars, exportVars>>

\* the section ids a request names: the ids of the rows, an id that no row
\* has, and 0
RequestIds == {r.id : r \in section_rows} \cup {0, next_id}

NextCrud ==
    \/ \E user \in Users, initial_sections \in InitialSectionLists :
          CreateProject(user, initial_sections)
    \/ \E user \in Users, projectId \in 1..(Cardinality(project_rows) + 1),
          insertAfter \in {<<>>} \cup {<<i>> : i \in RequestIds} :
          CreateSection(user, projectId, insertAfter)
    \/ \E user \in Users, section_id \in RequestIds :
          DeleteSection(user, section_id)
    \/ \E user \in Users, section_id \in RequestIds,
          newOrderIndex \in (-1)..Cardinality(section_rows) :
          ReorderSection(user, section_id, newOrderIndex)

SpecCrud == InitCrud /\ [][NextCrud]_vars

-----------------------------------------------------------------------------
(* The section endpoints of routers/sections.py as concurrent requests on  *)
(* project 1 of user 1.  A request runs on the event loop until its next   *)
(* await, so every action is one awaited database call together with the   *)
(* synchronous code that follows it.  tasks[t] is the request t: its       *)
(* endpoint and body, the await it stands before, the row and the index it *)
(* has read, and the status of its response.  delete and update of a row   *)
(* that is gone change nothing and return None.                            *)

TaskIds == {1, 2}

ConcProject == 1

concFrame == <<coreVars, planVars, inlineVars, slideVars, exportVars,
               contentVars, connVars, project_rows, crud_op, http_status,
               last_created>>

\* the request t after one more awaited call
Await(t, next_pc) == [tasks EXCEPT ![t].pc = next_pc]

Respond(t, status) ==
    [tasks EXCEPT ![t].pc = "done", ![t].status = status]

\* the bodies of the requests on a table with the rows of ids
ConcRequests(ids) ==
    {[op |-> "create_section", insertAfter |-> a, section_id |-> 0,
      newOrderIndex |-> 0, pc |-> "find_project", section |-> <<>>,
      new_order_index |-> 0, status |-> 0] :
       a \in {<<>>} \cup {<<i>> : i \in ids}}
    \cup {[op |-> "delete_section", insertAfter |-> <<>>, section_id |-> i,
           newOrderIndex |-> 0, pc |-> "find_section", section |-> <<>>,
           new_order_index |-> 0, status |-> 0] : i \in ids}
    \cup {[op |-> "reorder_section", insertAfter |-> <<>>, section_id |-> i,
           newOrderIndex |-> k, pc |-> "find_section", section |-> <<>>,
           new_order_index |-> 0, status |-> 0] :
            i \in ids, k \in 0..Cardinality(ids)}

\* the project as create_project left it, with at least one section, and
\* the requests that arrive
InitConc ==
    /\ IdleCore /\ IdlePlan /\ IdleInline /\ IdleSlide /\ IdleExport
    /\ IdleContent /\ IdleConn
    /\ project_rows = {[id |-> ConcProject, userId |-> 1]}
    /\ \E initial_sections \in InitialSectionLists \ {<<>>} :
          /\ section_rows = InitialRows(ConcProject, 1, initial_sections)
          /\ next_id = Len(initial_sections) + 1
          /\ tasks \in [TaskIds ->
                          ConcRequests(1..(Len(initial_sections) + 1))]
    /\ crud_op = "none"
    /\ http_status = 0
    /\ project_updates = {}
    /\ last_created = <<>>

\* sections.py lines 116-126
CreateFindProject(t) ==
    /\ tasks[t].op = "create_section" /\ tasks[t].pc = "find_project"
    /\ tasks' =
          IF ~\E p \in project_rows : p.id = ConcProject /\ p.userId = 1
          THEN Respond(t, 404)
          ELSE IF tasks[t].insertAfter # <<>> /\ tasks[t].insertAfter[1] # 0
          THEN Await(t, "find_after")
          ELSE Await(t, "find_last")
    /\ UNCHANGED <<section_rows, next_id, project_updates, concFrame>>

\* sections.py lines 128-134
CreateFindAfter(t) ==
    /\ tasks[t].op = "create_section" /\ tasks[t].pc = "find_after"
    /\ LET after_section == FindUnique(section_rows, tasks[t].insertAfter[1])
       IN  tasks' =
              IF \/ after_section = <<>>
                 \/ after_section[1].projectId # ConcProject
              THEN Respond(t, 400)
              ELSE [tasks EXCEPT
                      ![t].pc = "shift_down",
                      ![t].new_order_index = after_section[1].orderIndex + 1]
    /\ UNCHANGED <<section_rows, next_id, project_updates, concFrame>>

\* sections.py lines 137-145
CreateShift(t) ==
    /\ tasks[t].op = "create_section" /\ tasks[t].pc = "shift_down"
    /\ section_rows' =
          UpdateMany(section_rows,
                     ShiftedDown(section_rows, ConcProject,
                                 tasks[t].new_order_index), 1)
    /\ tasks' = Await(t, "create")
    /\ UNCHANGED <<next_id, project_updates, concFrame>>

\* sections.py lines 148-152
CreateFindLast(t) ==
    /\ tasks[t].op = "create_section" /\ tasks[t].pc = "find_last"
    /\ tasks' = [tasks EXCEPT
                   ![t].pc = "create",
                   ![t].new_order_index =
                      AppendIndex(section_rows, ConcProject)]
    /\ UNCHANGED <<section_rows, next_id, project_updates, concFrame>>

\* sections.py lines 155-163
CreateInsert(t) ==
    /\ tasks[t].op = "create_section" /\ tasks[t].pc = "create"
    /\ next_id <= MaxSectionIds
    /\ section_rows' =
          section_rows
          \cup {[id |-> next_id, projectId |-> ConcProject,
                 orderIndex |-> tasks[t].new_order_index]}
    /\ next_id' = next_id + 1
    /\ tasks' = Await(t, "touch")
    /\ UNCHANGED <<project_updates, concFrame>>

\* sections.py lines 188-197
DeleteFind(t) ==
    /\ tasks[t].op = "delete_section" /\ tasks[t].pc = "find_section"
    /\ LET section == FindUnique(section_rows, tasks[t].section_id)
       IN  tasks' =
              IF section = <<>> THEN Respond(t, 404)
              ELSE IF (CHOOSE p \in project_rows :
                         p.id = section[1].projectId).userId # 1
              THEN Respond(t, 403)
              ELSE [tasks EXCEPT ![t].pc = "count", ![t].section = section]
    /\ UNCHANGED <<section_rows, next_id, project_updates, concFrame>>

\* sections.py lines 200-211
DeleteCount(t) ==
    /\ tasks[t].op = "delete_section" /\ tasks[t].pc = "count"
    /\ tasks' =
          IF IsLastSection(SectionCount(section_rows,
                                        tasks[t].section[1].projectId))
          THEN Respond(t, 400)
          ELSE Await(t, "delete")
    /\ UNCHANGED <<section_rows, next_id, project_updates, concFrame>>

\* sections.py line 214
DeleteRow(t) ==
    /\ tasks[t].op = "delete_section" /\ tasks[t].pc = "delete"
    /\ section_rows' = {r \in section_rows : r.id # tasks[t].section_id}
    /\ tasks' = Await(t, "shift_up")
    /\ UNCHANGED <<next_id, project_updates, concFrame>>

\* sections.py lines 217-225
DeleteShift(t) ==
    /\ tasks[t].op = "delete_section" /\ tasks[t].pc = "shift_up"
    /\ section_rows' =
          UpdateMany(section_rows,
                     ShiftedUp(section_rows, tasks[t].section[1].projectId,
                               tasks[t].section[1].orderIndex), -1)
    /\ tasks' = Await(t, "touch")
    /\ UNCHANGED <<next_id, project_updates, concFrame>>

\* sections.py lines 251-260
ReorderFind(t) ==
    /\ tasks[t].op = "reorder_section" /\ tasks[t].pc = "find_section"
    /\ LET section == FindUnique(section_rows, tasks[t].section_id)
       IN  tasks' =
              IF section = <<>> THEN Respond(t, 404)
              ELSE IF (CHOOSE p \in project_rows :
                         p.id = section[1].projectId).userId # 1
              THEN Respond(t, 403)
              ELSE [tasks EXCEPT ![t].pc = "count", ![t].section = section]
    /\ UNCHANGED <<section_rows, next_id, project_updates, concFrame>>

\* sections.py lines 263-272
ReorderCount(t) ==
    /\ tasks[t].op = "reorder_section" /\ tasks[t].pc = "count"
    /\ LET max_order ==
              SectionCount(section_rows, tasks[t].section[1].projectId) - 1
       IN  tasks' =
              IF InvalidOrderIndex(tasks[t].newOrderIndex, max_order)
              THEN Respond(t, 400)
              ELSE IF tasks[t].newOrderIndex = tasks[t].section[1].orderIndex
              THEN Respond(t, 200)
              ELSE Await(t, "shift_between")
    /\ UNCHANGED <<section_rows, next_id, project_updates, concFrame>>

\* sections.py lines 275-301
ReorderShift(t) ==
    /\ tasks[t].op = "reorder_section" /\ tasks[t].pc = "shift_between"
    /\ LET old_order == tasks[t].section[1].orderIndex
           new_order == tasks[t].newOrderIndex
       IN  section_rows' =
              UpdateMany(section_rows,
                         Between(section_rows, tasks[t].section[1].projectId,
                                 old_order, new_order),
                         IF new_order < old_order THEN 1 ELSE -1)
    /\ tasks' = Await(t, "update")
    /\ UNCHANGED <<next_id, project_updates, concFrame>>

\* sections.py lines 304-307
ReorderUpdate(t) ==
    /\ tasks[t].op = "reorder_section" /\ tasks[t].pc = "update"
    /\ section_rows' =
          {IF r.id = tasks[t].section_id
           THEN [r EXCEPT !.orderIndex = tasks[t].newOrderIndex]
           ELSE r : r \in section_rows}
    /\ tasks' = Await(t, "touch")
    /\ UNCHANGED <<next_id, project_updates, concFrame>>

\* sections.py lines 166-172, 228-234 and 310-316
TouchProject(t) ==
    /\ tasks[t].pc = "touch"
    /\ project_updates' = project_updates \cup {ConcProject}
    /\ tasks' = Respond(t, 200)
    /\ UNCHANGED <<section_rows, next_id, concFrame>>

NextConc ==
    \E t \in TaskIds :
       \/ CreateFindProject(t)
       \/ CreateFindAfter(t)
       \/ CreateShift(t)
       \/ CreateFindLast(t)
       \/ CreateInsert(t)
       \/ DeleteFind(t)
       \/ DeleteCount(t)
       \/ DeleteRow(t)
       \/ DeleteShift(t)
       \/ ReorderFind(t)
       \/ ReorderCount(t)
       \/ ReorderShift(t)
       \/ ReorderUpdate(t)
       \/ TouchProject(t)

SpecConc == InitConc /\ [][NextConc]_vars

-----------------------------------------------------------------------------
(* routers/generation.py, update_section of routers/sections.py and        *)
(* routers/feedback.py over one project of user 1.  content_rows is the    *)
(* project's documentsection rows [id, content, htmlContent] as            *)
(* create_section makes them; history_count counts the refinementhistory   *)
(* rows; feedback_type[id] is the type of user 1's sectionfeedback row on  *)
(* the section ("" when there is none) and comments[id] the texts of user  *)
(* 1's sectioncomment rows, oldest first.  A request is handled in one     *)
(* step.                                                                   *)

MaxHistory == 2

MaxComments == 1

ContentSectionIds == {1, 2}

\* the texts the AI service answers with
AiTexts == {<<>>, <<"g">>}

\* request.content of update_section: <<>> for None
UpdateContents == {<<>>, <<<<>>>>, <<<<" ">>>>, <<<<"u">>>>}

\* request.feedback of regenerate_with_feedback: <<>> for None
FeedbackTexts == {<<>>, <<<<>>>>, <<<<"f">>>>}

CommentTexts == {<<>>, <<"c">>}

InitContent ==
    /\ IdleCore /\ IdlePlan /\ IdleInline /\ IdleSlide /\ IdleExport
    /\ IdleCrud /\ IdleConc /\ IdleConn
    /\ proj_type \in {"docx", "pptx"}
    /\ content_rows = [k \in ContentSectionIds |->
                         [id |-> k, content |-> <<>>, htmlContent |-> <<>>]]
    /\ history_count = 0
    /\ feedback_type = [k \in ContentSectionIds |-> ""]
    /\ comments = [k \in ContentSectionIds |-> <<>>]
    /\ content_op = "none"
    /\ content_status = 0
    /\ content_touched = FALSE
    /\ generated_count = 0

contentFrame == <<coreVars, planVars, inlineVars, slideVars, exportVars,
                  crudVars, concVars, connVars, proj_type>>

\* find_unique(where={"id": section_id}, include={"project": True}) and the
\* two checks that follow it in every section endpoint: the status of the
\* rejection, 0 when the request goes on
SectionAccess(user, section_id) ==
    IF section_id \notin DOMAIN content_rows THEN 404
    ELSE IF user # 1 THEN 403
    ELSE 0

\* a request that is rejected before it writes
Rejected(op, status) ==
    /\ content_op' = op
    /\ content_status' = status
    /\ content_touched' = FALSE
    /\ generated_count' = 0
    /\ UNCHANGED <<content_rows, history_count, feedback_type, comments>>

\* sections.py lines 52-100
UpdateSectionRequest(user, section_id, content) ==
    /\ UNCHANGED contentFrame
    /\ IF SectionAccess(user, section_id) # 0
       THEN Rejected("update_section", SectionAccess(user, section_id))
       ELSE /\ content_rows' =
                  IF content = <<>> THEN content_rows
                  ELSE IF proj_type = "docx"
                  THEN [content_rows EXCEPT
                          ![section_id].content = content[1],
                          ![section_id].htmlContent = MarkdownToHtml(content[1])]
                  ELSE [content_rows EXCEPT ![section_id].content = content[1]]
            /\ content_op' = "update_section"
            /\ content_status' = 200
            /\ content_touched' = TRUE
            /\ generated_count' = 0
            /\ UNCHANGED <<history_count, feedback_type, comments>>

\* generation.py lines 11-38
GenerateSection(user, section_id, ai_text) ==
    /\ UNCHANGED contentFrame
    /\ IF SectionAccess(user, section_id) # 0
       THEN Rejected("generate_section", SectionAccess(user, section_id))
       ELSE /\ content_rows' =
                  [content_rows EXCEPT ![section_id].content = ai_text]
            /\ content_op' = "generate_section"
            /\ content_status' = 200
            /\ content_touched' = TRUE
            /\ generated_count' = 0
            /\ UNCHANGED <<history_count, feedback_type, comments>>

\* generation.py lines 40-78
RefineSection(user, section_id, ai_text) ==
    /\ UNCHANGED contentFrame
    /\ history_count < MaxHistory
    /\ IF SectionAccess(user, section_id) # 0
       THEN Rejected("refine_section", SectionAccess(user, section_id))
       ELSE /\ history_count' = history_count + 1
            /\ content_rows' =
                  [content_rows EXCEPT ![section_id].content = ai_text]
            /\ content_op' = "refine_section"
            /\ content_status' = 200
            /\ content_touched' = TRUE
            /\ generated_count' = 0
            /\ UNCHANGED <<feedback_type, comments>>

\* mutant of NeedsContent: every section is generated again
NeedsContentAlways(content) == TRUE

\* generation.py line 95: not section.content or section.content.strip() == ""
NeedsContent(content) == content = <<>> \/ Strip(content) = <<>>

\* generation.py lines 80-111; ai_texts[id] is the answer for section id
GenerateAllSections(user, project_id, ai_texts) ==
    /\ UNCHANGED contentFrame
    /\ IF project_id # 1
       THEN Rejected("generate_all_sections", 404)
       ELSE IF user # 1
       THEN Rejected("generate_all_sections", 403)
       ELSE /\ content_rows' =
                  [k \in DOMAIN content_rows |->
                     IF NeedsContent(content_rows[k].content)
                     THEN [content_rows[k] EXCEPT !.content = ai_texts[k]]
                     ELSE content_rows[k]]
            /\ generated_count' =
                  Cardinality({k \in DOMAIN content_rows :
                                 NeedsContent(content_rows[k].content)})
            /\ content_touched' = (generated_count' > 0)
            /\ content_op' = "generate_all_sections"
            /\ content_status' = 200
            /\ UNCHANGED <<history_count, feedback_type, comments>>

\* feedback.py lines 23-75
AddFeedback(user, section_id, type) ==
    /\ UNCHANGED contentFrame
    /\ IF SectionAccess(user, section_id) # 0
       THEN Rejected("add_feedback", SectionAccess(user, section_id))
       ELSE IF type \notin {"like", "dislike"}
       THEN Rejected("add_feedback", 400)
       ELSE /\ feedback_type' = [feedback_type EXCEPT ![section_id] = type]
            /\ content_op' = "add_feedback"
            /\ content_status' = 200
            /\ content_touched' = FALSE
            /\ generated_count' = 0
            /\ UNCHANGED <<content_rows, history_count, comments>>

\* feedback.py lines 314-348
AddComment(user, section_id, comment) ==
    /\ UNCHANGED contentFrame
    /\ section_id \in DOMAIN comments => Len(comments[section_id]) < MaxComments
    /\ IF SectionAccess(user, section_id) # 0
       THEN Rejected("add_comment", SectionAccess(user, section_id))
       ELSE /\ comments' =
                  [comments EXCEPT ![section_id] = Append(@, comment)]
            /\ content_op' = "add_comment"
            /\ content_status' = 200
            /\ content_touched' = FALSE
            /\ generated_count' = 0
            /\ UNCHANGED <<content_rows, history_count, feedback_type>>

\* feedback.py lines 223-236: request.feedback when it is given and not
\* empty, else the newest comment of the user on the section, else None
FeedbackText(feedback, section_comments) ==
    IF feedback # <<>> /\ feedback[1] # <<>> THEN feedback
    ELSE IF section_comments # <<>>
    THEN <<section_comments[Len(section_comments)]>>
    ELSE <<>>

\* feedback.py line 244: ai_service.py defines no regenerate_with_feedback,
\* so the attribute lookup raises AttributeError: <<>> for raised, <<text>>
\* for a returned text
AiRegenerateWithFeedback(current_content, feedback_text, project_type) == <<>>

\* feedback.py lines 308-310: whatever the try block raised is answered
\* with 500
CaughtStatus(raised_status) == 500

\* feedback.py lines 199-310
RegenerateWithFeedback(user, section_id, feedback) ==
    /\ UNCHANGED contentFrame
    /\ IF SectionAccess(user, section_id) # 0
       THEN Rejected("regenerate_with_feedback", SectionAccess(user, section_id))
       ELSE LET feedback_text == FeedbackText(feedback, comments[section_id])
                section == content_rows[section_id]
                refined_content ==
                    AiRegenerateWithFeedback(section.content, feedback_text,
                                             proj_type)
            IN  IF feedback_text = <<>> \/ feedback_text[1] = <<>>
                THEN Rejected("regenerate_with_feedback", CaughtStatus(400))
                ELSE IF refined_content = <<>>
                THEN Rejected("regenerate_with_feedback", CaughtStatus(0))
                ELSE /\ history_count < MaxHistory
                     /\ history_count' = history_count + 1
                     /\ content_rows' =
                           IF proj_type = "docx"
                           THEN [content_rows EXCEPT
                                   ![section_id].content = refined_content[1],
                                   ![section_id].htmlContent =
                                      MarkdownToHtml(refined_content[1])]
                           ELSE [content_rows EXCEPT
                                   ![section_id].content = refined_content[1]]
                     /\ content_touched' = TRUE
                     /\ IF feedback_type[section_id] = "dislike"
                        THEN /\ feedback_type' =
                                   [feedback_type EXCEPT ![section_id] = ""]
                             /\ comments' =
                                   [comments EXCEPT ![section_id] = <<>>]
                        ELSE UNCHANGED <<feedback_type, comments>>
                     /\ content_op' = "regenerate_with_feedback"
                     /\ content_status' = 200
                     /\ generated_count' = 0

\* the section ids a request names: the ids of the rows and an id that no
\* row has
ContentRequestIds == ContentSectionIds \cup {3}

NextContent ==
       \/ \E user \in Users, section_id \in ContentRequestIds,
             content \in UpdateContents :
             UpdateSectionRequest(user, section_id, content)
       \/ \E user \in Users, section_id \in ContentRequestIds,
             ai_text \in AiTexts :
             GenerateSection(user, section_id, ai_text)
       \/ \E user \in Users, section_id \in ContentRequestIds,
             ai_text \in AiTexts :
             RefineSection(user, section_id, ai_text)
       \/ \E user \in Users, project_id \in {1, 2},
             ai_texts \in [ContentSectionIds -> AiTexts] :
             GenerateAllSections(user, project_id, ai_texts)

SpecContent == InitContent /\ [][NextContent]_vars

NextFeedback ==
       \/ \E user \in Users, section_id \in ContentRequestIds,
             type \in {"like", "dislike", "meh"} :
             AddFeedback(user, section_id, type)
       \/ \E user \in Users, section_id \in ContentRequestIds,
             comment \in CommentTexts :
             AddComment(user, section_id, comment)
       \/ \E user \in Users, section_id \in ContentRequestIds,
             feedback \in FeedbackTexts :
             RegenerateWithFeedback(user, section_id, feedback)

SpecFeedback == InitContent /\ [][NextFeedback]_vars

-----------------------------------------------------------------------------
(* database.py: ensure_connection and its caller get_db, run by concurrent *)
(* requests.  A caller runs until its next await, so every action is one   *)
(* awaited call together with the synchronous code around it; acquiring a  *)
(* free asyncio.Lock does not suspend.  callers[c] is the get_db call c:   *)
(* the await it stands at, which of its two ensure_connection calls it is  *)
(* in, and how its last ensure_connection call ended.  connection_lock is  *)
(* the caller that holds the lock, 0 when it is free.  last_health_check   *)
(* is <<>> for None; the time since it was set is arbitrary, and so are    *)
(* the outcomes of connect, execute_raw and disconnect and what            *)
(* is_connected() answers after one of them raised.                        *)

CallerIds == {1, 2}

\* the awaits inside the body of ensure_connection
BodyAwaits == {"connect", "health_check", "disconnect", "reconnect"}

InitConn ==
    /\ IdleCore /\ IdlePlan /\ IdleInline /\ IdleSlide /\ IdleExport
    /\ IdleCrud /\ IdleConc /\ IdleContent
    /\ is_connected = FALSE
    /\ last_health_check = <<>>
    /\ connection_lock = 0
    /\ callers = [c \in CallerIds |->
                    [pc |-> "call", attempt |-> 1, ensured |-> "none"]]

connFrame == <<coreVars, planVars, inlineVars, slideVars, exportVars,
               crudVars, concVars, contentVars>>

\* mutant of LockFree: the lock is taken whoever holds it
LockFreeAlways(lock) == TRUE

\* database.py line 28: `async with connection_lock` goes on when the lock
\* is not held
LockFree(lock) == lock = 0

\* database.py lines 87-103: get_db after its ensure_connection call
\* returned: the first call yields the client, the recovery call is
\* followed by the raise of line 103
AfterReturn(c) ==
    [callers EXCEPT ![c].pc = IF callers[c].attempt = 1 THEN "yielded"
                              ELSE "raised",
                    ![c].ensured = "returned"]

\* database.py lines 92-103: get_db after its ensure_connection call raised:
\* the first call is followed by the recovery call, the recovery call by the
\* raise of line 103
AfterRaise(c) ==
    [callers EXCEPT ![c].pc = IF callers[c].attempt = 1 THEN "call"
                              ELSE "raised",
                    ![c].attempt = 2,
                    ![c].ensured = "raised"]

\* database.py lines 28-41 and 49-52: the lock is taken, and the body runs
\* to its first await or, with a connected client and a recent health
\* check, to its end
Enter(c, elapsed) ==
    /\ callers[c].pc = "call"
    /\ LockFree(connection_lock)
    /\ LET needs_health_check == last_health_check = <<>> \/ elapsed
       IN  IF ~is_connected
           THEN /\ callers' = [callers EXCEPT ![c].pc = "connect"]
                /\ connection_lock' = c
           ELSE IF needs_health_check
           THEN /\ callers' = [callers EXCEPT ![c].pc = "health_check"]
                /\ connection_lock' = c
           ELSE /\ callers' = AfterReturn(c)
                /\ UNCHANGED connection_lock
    /\ UNCHANGED <<is_connected, last_health_check, connFrame>>

\* database.py lines 41-46
Connect(c, ok, connected_after) ==
    /\ callers[c].pc = "connect"
    /\ IF ok
       THEN /\ is_connected' = TRUE
            /\ last_health_check' = <<"now">>
            /\ callers' = AfterReturn(c)
       ELSE /\ is_connected' = connected_after
            /\ UNCHANGED last_health_check
            /\ callers' = AfterRaise(c)
    /\ connection_lock' = 0
    /\ UNCHANGED connFrame

\* database.py lines 50-56
HealthCheck(c, ok) ==
    /\ callers[c].pc = "health_check"
    /\ IF ok
       THEN /\ last_health_check' = <<"now">>
            /\ callers' = AfterReturn(c)
            /\ connection_lock' = 0
       ELSE /\ callers' = [callers EXCEPT ![c].pc = "disconnect"]
            /\ UNCHANGED <<last_health_check, connection_lock>>
    /\ UNCHANGED <<is_connected, connFrame>>

\* database.py lines 58-61
Disconnect(c, ok, connected_after) ==
    /\ callers[c].pc = "disconnect"
    /\ is_connected' = IF ok THEN FALSE ELSE connected_after
    /\ callers' = [callers EXCEPT ![c].pc = "reconnect"]
    /\ UNCHANGED <<last_health_check, connection_lock, connFrame>>

\* database.py lines 62-64
Reconnect(c, ok, connected_after) ==
    /\ callers[c].pc = "reconnect"
    /\ IF ok
       THEN /\ is_connected' = TRUE
            /\ last_health_check' = <<"now">>
            /\ callers' = AfterReturn(c)
       ELSE /\ is_connected' = connected_after
            /\ UNCHANGED last_health_check
            /\ callers' = AfterRaise(c)
    /\ connection_lock' = 0
    /\ UNCHANGED connFrame

\* database.py lines 90-98: the route raises into the generator, and get_db
\* goes to its recovery call
RouteRaises(c) ==
    /\ callers[c].pc = "yielded"
    /\ callers' = [callers EXCEPT ![c].pc = "call", ![c].attempt = 2,
                                  ![c].ensured = "none"]
    /\ UNCHANGED <<is_connected, last_health_check, connection_lock,
                   connFrame>>

\* database.py line 90: the route is done and the generator is closed
RouteDone(c) ==
    /\ callers[c].pc = "yielded"
    /\ callers' = [callers EXCEPT ![c].pc = "closed"]
    /\ UNCHANGED <<is_connected, last_health_check, connection_lock,
                   connFrame>>

\* the next request calls get_db
NextRequest(c) ==
    /\ callers[c].pc \in {"closed", "raised"}
    /\ callers' = [callers EXCEPT ![c] = [pc |-> "call", attempt |-> 1,
                                          ensured |-> "none"]]
    /\ UNCHANGED <<is_connected, last_health_check, connection_lock,
                   connFrame>>

NextConn ==
    \E c \in CallerIds :
       \/ \E elapsed \in BOOLEAN : Enter(c, elapsed)
       \/ \E ok \in BOOLEAN, connected_after \in BOOLEAN :
             Connect(c, ok, connected_after)
       \/ \E ok \in BOOLEAN : HealthCheck(c, ok)
       \/ \E ok \in BOOLEAN, connected_after \in BOOLEAN :
             Disconnect(c, ok, connected_after)
       \/ \E ok \in BOOLEAN, connected_after \in BOOLEAN :
             Reconnect(c, ok, connected_after)
       \/ RouteRaises(c)
       \/ RouteDone(c)
       \/ NextRequest(c)

SpecConn == InitConn /\ [][NextConn]_vars

-----------------------------------------------------------------------------
(* The planner response seen as lines.                                     *)

UntitledPresentation == <<"U","n","t","i","t","l","e","d"," ","P","r","e","s","e","n","t","a","t","i","o","n">>

UntitledDocument == <<"U","n","t","i","t","l","e","d"," ","D","o","c","u","m","e","n","t">>

IsMarkerLine(l, ct) == StartsWith(StrUpper(Strip(l)), StrUpper(ct) \o <<":">>)

IsDashLine(l) == Strip(l) # <<>> /\ Head(Strip(l)) = "-"

\* the text of a dash line without its leading dashes and spaces
RECURSIVE DropDashes(_)
DropDashes(l) ==
    IF l # <<>> /\ Head(l) \in {"-", " "} THEN DropDashes(Tail(l)) ELSE l

DashText(l) == Strip(DropDashes(Strip(l)))

\* the first marker line among the first n lines, 0 when there is none
FirstMarker(ls, n, ct) ==
    LET ms == {m \in 1..n : IsMarkerLine(ls[m], ct)}
    IN  IF ms = {} THEN 0 ELSE MinOf(ms)

\* the non-blank texts of the dash lines from..to, in order
RECURSIVE DashItems(_, _, _)
DashItems(ls, from, to) ==
    IF from > to THEN <<>>
    ELSE (IF IsDashLine(ls[from]) /\ DashText(ls[from]) # <<>>
          THEN <<DashText(ls[from])>> ELSE <<>>)
         \o DashItems(ls, from + 1, to)

-----------------------------------------------------------------------------
(* Claims.                                                                 *)

\* C1 as stated: for a non-empty list of expected titles the returned map has
\* exactly len(expected) entries, each a non-empty string starting with "## ".
C1_AsStated ==
    (pc = "done" /\ Len(expected_sections) > 0) =>
        /\ Len(sections_content) = Len(expected_sections)
        /\ \A i \in 1..Len(sections_content) :
              /\ sections_content[i].val # <<>>
              /\ StartsWith(sections_content[i].val, HeadingMark)

\* C1 amended: the returned map has exactly one entry per distinct expected
\* title (len(expected) entries when the titles are pairwise distinct), and
\* every value is a non-empty string starting with "## ".
C1_OneEntryPerDistinctTitle ==
    pc = "done" =>
        LET wanted == {expected_sections[i] : i \in 1..Len(expected_sections)}
        IN  /\ DictKeys(sections_content) = wanted
            /\ Len(sections_content) = Cardinality(wanted)
            /\ \A i \in 1..Len(sections_content) :
                  /\ sections_content[i].val # <<>>
                  /\ StartsWith(sections_content[i].val, HeadingMark)

\* C1 witness: the split returned for a list that names one title twice.
C1_Witness ==
    /\ pc = "done"
    /\ Len(expected_sections) = 2
    /\ expected_sections[1] = expected_sections[2]
    /\ Len(sections_content) = 1

\* C2: an expected title that equals a level-2 heading of the document,
\* case-insensitively, is mapped to the chunk of that heading (the last such
\* heading), not to a placeholder nor to the chunk of another heading.
C2_ExactMatchWins ==
    pc = "done" =>
        \A doc \in {DocOf} :
        \A i \in 1..Len(expected_sections) :
            LET e == expected_sections[i]
            IN  HeadingsFor(doc, StrLower(e)) # {} =>
                    DictGet(sections_content, e) = ChunkFor(doc, StrLower(e))

\* C2 witness: the title "a b c (q)" is a heading of the document, and
\* another heading equals its core title "a b c".
C2_Witness ==
    /\ pc = "done"
    /\ \E i \in 1..Len(expected_sections) :
          LET e == expected_sections[i]
          IN  /\ HasParenSuffix(e)
              /\ HeadingsFor(DocOf, StrLower(e)) # {}
              /\ HeadingsFor(DocOf, StrLower(CoreTitle(e))) # {}
              /\ DictGet(sections_content, e) = ChunkFor(DocOf, StrLower(e))

\* C3: after generate_full_document on a docx project every row of the
\* project has been updated, none is dropped, and its content is the chunk for
\* its own title: a chunk of the AI document or the placeholder of its core
\* title; rows with the same title hold the same chunk.
C3_EverySectionUpdated ==
    gpc = "done" =>
        /\ Len(db_sections) = Len(sections)
        /\ \A k \in 1..Len(db_sections) :
              LET row == db_sections[k]
                  doc == SplitLines(markdown_content)
                  keys == {StrLower(HeadingText(doc, h)) : h \in HeadingIdxs(doc)}
              IN  /\ row.id \in updated
                  /\ row.title = sections[k].title
                  /\ row.content # OldContent
                  /\ StartsWith(row.content, HeadingMark)
                  /\ \/ row.content = HeadingMark \o CoreTitle(row.title)
                                        \o <<NL, NL>> \o PlaceholderText
                     \/ \E key \in keys : row.content = ChunkFor(doc, key)
                  /\ \A j \in 1..Len(db_sections) :
                        db_sections[j].title = row.title
                            => db_sections[j].content = row.content

\* C3 witness: two rows carry the same title, the AI text has no level-2
\* heading, and the handler has returned.
C3_Witness ==
    /\ gpc = "done"
    /\ Len(db_sections) = 2
    /\ db_sections[1].title = db_sections[2].title
    /\ markdown_content # <<>>
    /\ HeadingIdxs(SplitLines(markdown_content)) = {}
    /\ updated = {1, 2}

\* C4: with no exact and no core match, a chunk of the document is stored
\* only when some heading scores strictly above 40, and the placeholder is
\* stored whenever no heading does; a sole heading sharing 2 of 5 words scores
\* 24 and gives the placeholder, one sharing 4 of 5 words scores 48 and gives
\* that heading's chunk.
C4_FuzzyThreshold ==
    pc = "done" =>
        \A doc \in {DocOf} :
        \A keys \in {{StrLower(HeadingText(doc, h)) : h \in HeadingIdxs(doc)}} :
        \A i \in 1..Len(expected_sections) :
            Unmatched(doc, expected_sections[i]) =>
            \A sc \in {[k \in keys |->
                          RuleScore(k, StrLower(CoreTitle(expected_sections[i])))]} :
            LET e == expected_sections[i]
                core == StrLower(CoreTitle(e))
                stored == DictGet(sections_content, e)
                placeholder == HeadingMark \o CoreTitle(e) \o <<NL, NL>> \o PlaceholderText
                above == {k \in keys : FracAbove(sc[k], 40)}
                shared(k) == Cardinality(WordSet(k) \cap WordSet(core))
                fiveWords(k) == /\ Cardinality(WordSet(k)) = 5
                                /\ Cardinality(WordSet(core)) = 5
                                /\ ~IsSubstr(k, core)
                                /\ ~IsSubstr(core, k)
            IN  /\ above = {} => stored = placeholder
                /\ above # {} => \E k \in above : stored = ChunkFor(doc, k)
                /\ \A k \in keys :
                      /\ (fiveWords(k) /\ shared(k) = 2) =>
                            /\ sc[k][1] = 24 * sc[k][2]
                            /\ keys = {k} => stored = placeholder
                      /\ (fiveWords(k) /\ shared(k) = 4) =>
                            /\ sc[k][1] = 48 * sc[k][2]
                            /\ keys = {k} => stored = ChunkFor(doc, k)

\* C4 witness: the sole heading shares 4 of 5 words with the title and its
\* chunk was stored.
C4_Witness ==
    /\ pc = "done"
    /\ Len(expected_sections) = 1
    /\ LET e == expected_sections[1]
           core == StrLower(CoreTitle(e))
           keys == {StrLower(HeadingText(DocOf, h)) : h \in HeadingIdxs(DocOf)}
       IN  /\ Unmatched(DocOf, e)
           /\ Cardinality(keys) = 1
           /\ \E k \in keys :
                 /\ Cardinality(WordSet(k)) = 5
                 /\ Cardinality(WordSet(core)) = 5
                 /\ Cardinality(WordSet(k) \cap WordSet(core)) = 4
                 /\ DictGet(sections_content, e) = ChunkFor(DocOf, k)

\* C5: with no exact and no core match, the chunk stored by the fuzzy step is
\* that of the first key, in the order the headings appear, whose score under
\* the three rules (first applicable rule wins) is the highest.
C5_BestScoreFirstOnTies ==
    pc = "done" =>
        \A doc \in {DocOf} : \A ks \in {KeysInOrder(doc)} :
        \A i \in 1..Len(expected_sections) :
            LET e == expected_sections[i]
                stored == DictGet(sections_content, e)
                placeholder == HeadingMark \o CoreTitle(e) \o <<NL, NL>> \o PlaceholderText
            IN  (Unmatched(doc, e) /\ stored # placeholder) =>
                    \A sc \in {[a \in 1..Len(ks) |->
                                  RuleScore(ks[a], StrLower(CoreTitle(e)))]} :
                        LET best == {a \in 1..Len(ks) :
                                        \A b \in 1..Len(ks) : FracGE(sc[a], sc[b])}
                        IN  stored = ChunkFor(doc, ks[MinOf(best)])

\* C5 witness: two headings score the same, above 40 and above every other,
\* and the chunk of the one that comes first was stored.
C5_Witness ==
    /\ pc = "done"
    /\ Len(expected_sections) = 1
    /\ LET e == expected_sections[1]
           core == StrLower(CoreTitle(e))
           ks == KeysInOrder(DocOf)
       IN  /\ Unmatched(DocOf, e)
           /\ Len(ks) >= 2
           /\ \E a, b \in 1..Len(ks) :
                 /\ a < b
                 /\ FracGE(RuleScore(ks[a], core), RuleScore(ks[b], core))
                 /\ FracGE(RuleScore(ks[b], core), RuleScore(ks[a], core))
                 /\ FracAbove(RuleScore(ks[a], core), 40)
                 /\ \A c \in 1..Len(ks) :
                       FracGE(RuleScore(ks[a], core), RuleScore(ks[c], core))
                 /\ ChunkFor(DocOf, ks[a]) # ChunkFor(DocOf, ks[b])
                 /\ DictGet(sections_content, e) = ChunkFor(DocOf, ks[a])

\* C6: an expected title with no exact match, no core match and no heading
\* scoring above 40 is mapped to "## {core title}\n\n*Content for this section
\* was not generated.*", the core title being the title without its
\* parenthetical suffix.
C6_PlaceholderUsesCoreTitle ==
    pc = "done" =>
        \A doc \in {DocOf} :
        \A keys \in {{StrLower(HeadingText(doc, h)) : h \in HeadingIdxs(doc)}} :
        \A i \in 1..Len(expected_sections) :
            LET e == expected_sections[i]
                core == CoreTitle(e)
            IN  (/\ Unmatched(doc, e)
                 /\ \A k \in keys : ~FracAbove(RuleScore(k, StrLower(core)), 40))
                => DictGet(sections_content, e) =
                       HeadingMark \o core \o <<NL, NL>> \o PlaceholderText

\* C6 witness: a title with a parenthetical suffix got the placeholder
\* although the document has headings.
C6_Witness ==
    /\ pc = "done"
    /\ HeadingIdxs(DocOf) # {}
    /\ \E i \in 1..Len(expected_sections) :
          LET e == expected_sections[i]
          IN  /\ HasParenSuffix(e)
              /\ CoreTitle(e) # <<>>
              /\ DictGet(sections_content, e) =
                     HeadingMark \o CoreTitle(e) \o <<NL, NL>> \o PlaceholderText

\* C7: the working map has one key per level-2 heading text (lowercased), in
\* the order of first appearance; each value is "## {heading}\n\n{body}" where
\* body is every line after the heading up to the next level-2 heading or the
\* end of the document, so lines of another heading level stay in the body and
\* the text before the first level-2 heading is in no chunk.
C7_SplitOnLevel2Only ==
    pc = "match" =>
        \A doc \in {DocOf} : \A ks \in {KeysInOrder(doc)} :
            /\ Len(current_sections) = Len(ks)
            /\ \A i \in 1..Len(current_sections) :
                  /\ current_sections[i].key = ks[i]
                  /\ current_sections[i].val = ChunkFor(doc, ks[i])

\* C7 witness: two chunks, a level-3 heading inside the body of the first.
C7_Witness ==
    /\ pc = "match"
    /\ Len(current_sections) = 2
    /\ IsSubstr(<<NL, NL, "#", "#", "#", " ", "x">>, current_sections[1].val)

\* C8 (state part): the returned title and items are never empty.
C8_NeverEmpty == ppc = "done" => (title # <<>> /\ items # <<>>)

\* C8 (step part): on return an empty parsed title becomes "Untitled
\* Presentation" (slides) or "Untitled Document" (sections), an empty items
\* list becomes the 3-entry default list of the content type, and a non-empty
\* title or list is returned as parsed.
C8_ReturnStep ==
    (ppc = "scan" /\ ppc' = "done") =>
        /\ title # <<>> => title' = title
        /\ title = <<>> => title' = IF content_type = Slides
                                    THEN UntitledPresentation
                                    ELSE UntitledDocument
        /\ items # <<>> => items' = items
        /\ items = <<>> => (Len(items') = 3 /\ items' = DefaultItems(content_type))

\* C8: _parse_structure_response returns a non-empty title and a non-empty
\* items list, the fixed defaults of the content type standing in for an empty
\* parsed title and an empty parsed list.
C8_DefaultsFill == []C8_NeverEmpty /\ [][C8_ReturnStep]_vars

\* C8 witness: a text without title and items returned the slide defaults.
C8_Witness ==
    /\ ppc = "done"
    /\ text # <<>>
    /\ content_type = Slides
    /\ title = UntitledPresentation
    /\ Len(items) = 3

\* C9 (state part): after the first n lines the flag is set exactly when a
\* marker line is among them, and the items are the non-blank texts of the
\* dash lines after the first marker line, in input order.
C9_ItemsAfterMarker ==
    ppc = "scan" =>
        LET n == line_no - 1
            m == FirstMarker(lines, n, content_type)
        IN  /\ in_items_section = (m # 0)
            /\ items = IF m = 0 THEN <<>> ELSE DashItems(lines, m + 1, n)

\* C9: the items-section flag, set by the marker line, is never cleared, and
\* the parsed items are exactly the non-blank stripped texts of the dash lines
\* after the first marker line, in input order.
C9_FlagNeverCleared ==
    []C9_ItemsAfterMarker /\ [][in_items_section => in_items_section']_vars

\* C9 witness: marker, free text, item: the item after the free text is
\* parsed.
C9_Witness ==
    /\ ppc = "scan"
    /\ Len(lines) = 3
    /\ line_no = 4
    /\ IsMarkerLine(lines[1], content_type)
    /\ ~IsDashLine(lines[2]) /\ Strip(lines[2]) # <<>>
    /\ ~IsMarkerLine(lines[2], content_type)
    /\ IsDashLine(lines[3])
    /\ Len(items) = 1

\* C10: neither parser raises: the splitter never divides by zero and maps
\* every expected title to a chunk of the document or to a placeholder, the
\* planner parser returns a non-empty title and list, whatever the input.
C10_NeverRaises ==
    /\ pc # "raised"
    /\ pc = "done" =>
          \A i \in 1..Len(expected_sections) :
              LET e == expected_sections[i]
                  keys == {StrLower(HeadingText(DocOf, h)) : h \in HeadingIdxs(DocOf)}
              IN  /\ DictHas(sections_content, e)
                  /\ \/ DictGet(sections_content, e) =
                          HeadingMark \o CoreTitle(e) \o <<NL, NL>> \o PlaceholderText
                     \/ \E k \in keys : DictGet(sections_content, e) = ChunkFor(DocOf, k)
    /\ ppc = "done" => (title # <<>> /\ items # <<>>)

\* C10 witness: a title that is only a parenthetical, in a document with a
\* heading whose text is blank: the split returned that heading's chunk.
C10_Witness ==
    /\ pc = "done"
    /\ \E i \in 1..Len(expected_sections) :
          LET e == expected_sections[i]
          IN  /\ e # <<>>
              /\ CoreTitle(e) = <<>>
              /\ HeadingsFor(DocOf, <<>>) # {}
              /\ DictGet(sections_content, e) = ChunkFor(DocOf, <<>>)

\* the message strings a failed AI call is answered with
SentinelMessages ==
    {NoApiKey, RateLimit} \cup {GenerationError(m) : m \in ErrorMessages}

\* C11 as stated: when the AI call fails, is rate-limited or the API key is
\* not configured, generate_section_content returns a sentinel message and
\* the plan endpoint returns an outline with a non-empty title and a non-empty
\* section list (the model has no raise and no HTTP error state to reach).
C11_AsStated ==
    plpc = "done" =>
        /\ (plan_kind = "section" /\ ~api_key) => section_text \in SentinelMessages
        /\ plan_kind = "plan" =>
              /\ plan_response.title # <<>>
              /\ plan_response.sections # <<>>

\* C12 as stated: create_docx and create_pptx never raise because of the
\* shape of the stored content (empty or missing content, malformed tables,
\* legacy plain text, empty section title, heading marker without text).
C12_AsStated == epc # "raised"

\* the content holds "*" or "##" ("**" holds "*")
HasMarker(content) ==
    \/ \E k \in 1..Len(content) : content[k] = "*"
    \/ \E k \in 1..(Len(content) - 1) : content[k] = "#" /\ content[k + 1] = "#"

\* the content create_docx renders for the k-th section
RenderedContent(k) == ContentOr(exp_sections[k].content, NoContentYet)

\* C13: in create_docx every element of a section whose content holds none of
\* "##", "**", "*" is made by the legacy path, which starts with one heading
\* taken from the section title; every element of a section whose content
\* holds one of them is made by the Markdown line dispatcher.
C13_PathByMarkers ==
    exp_project.type = "docx" =>
        /\ \A k \in 1..Len(doc_body) :
              doc_body[k].sec >= 1 =>
                 /\ doc_body[k].path =
                       IF HasMarker(RenderedContent(doc_body[k].sec))
                       THEN "markdown" ELSE "legacy"
                 /\ (doc_body[k].path = "legacy"
                       /\ doc_body[k - 1].sec # doc_body[k].sec) =>
                       /\ doc_body[k].kind = "h1"
                       /\ doc_body[k].text = exp_sections[doc_body[k].sec].title
        /\ epc = "docx_line" =>
              doc_path = "markdown" /\ HasMarker(RenderedContent(sec_no))
        /\ \A s \in 1..Len(exp_sections) :
              (s < sec_no /\ ~HasMarker(RenderedContent(s))) =>
                 \E k \in 1..Len(doc_body) :
                    /\ doc_body[k].sec = s
                    /\ doc_body[k].path = "legacy"
                    /\ doc_body[k].kind = "h1"

\* C13 witness: a finished document with a section made by the dispatcher
\* (content "*i*") and a section made by the legacy path (no content).
C13_Witness ==
    /\ epc = "done"
    /\ exp_project.type = "docx"
    /\ \E a, b \in 1..Len(doc_body) :
          /\ doc_body[a].sec = 2 /\ doc_body[a].path = "markdown"
          /\ doc_body[a].kind = "para"
          /\ doc_body[b].sec = 3 /\ doc_body[b].path = "legacy"
          /\ doc_body[b].kind = "para" /\ doc_body[b].text = NoContentYet

\* line k (0-based) of ls starts with "|" once stripped
BarLine(ls, k) == StartsWith(Strip(ls[k + 1]), <<"|">>)

\* the last line of the contiguous "|"-prefixed lines that start at line a
LastBarFrom(ls, a) ==
    CHOOSE b \in a..(Len(ls) - 1) :
        /\ \A k \in a..b : BarLine(ls, k)
        /\ b = Len(ls) - 1 \/ ~BarLine(ls, b + 1)

\* the rows a..b of ls that have a non-blank cell between their bars, each
\* cut or padded to ncols cells
RECURSIVE RowsWithCells(_, _, _, _)
RowsWithCells(ls, a, b, ncols) ==
    IF a > b THEN <<>>
    ELSE LET cells == Cells(Strip(ls[a + 1]))
         IN  (IF \E c \in 1..Len(cells) : cells[c] # <<>>
              THEN << [c \in 1..ncols |->
                         IF c <= Len(cells) THEN cells[c] ELSE <<>>] >>
              ELSE <<>>)
             \o RowsWithCells(ls, a + 1, b, ncols)

\* the tables of the section being walked, as [line, header, rows]
TablesOfSection ==
    LET at == {k \in 1..Len(doc_body) :
                 doc_body[k].sec = sec_no /\ doc_body[k].kind = "table"}
    IN  {[line |-> doc_body[k].line, header |-> doc_body[k].header,
          rows |-> doc_body[k].rows] : k \in at}

\* the table the claim describes for the rows a..b
TableOfRun(ls, a, b) ==
    [line |-> a, header |-> Cells(Strip(ls[a + 1])),
     rows |-> RowsWithCells(ls, a + 2, b, Len(Cells(Strip(ls[a + 1]))))]

\* the walker of the section is past its last line
WalkOver == epc = "docx_line" /\ line_i >= Len(docx_lines)

\* C14 as stated: every maximal run of contiguous "|"-prefixed lines gives one
\* table (first row the header, second row dropped, the other non-empty rows
\* the data rows) when it has 2 rows or more, and no table when it has fewer.
C14_AsStated ==
    WalkOver =>
        \A ls \in {docx_lines} :
        \A a \in 0..(Len(ls) - 1) :
            (BarLine(ls, a) /\ (a = 0 \/ ~BarLine(ls, a - 1))) =>
                \A b \in {LastBarFrom(ls, a)} :
                    {t \in TablesOfSection : t.line \in a..b} =
                        IF b - a + 1 >= 2 THEN {TableOfRun(ls, a, b)} ELSE {}

\* line k belongs to a run the dispatcher collects: it is "|"-prefixed and
\* either holds a second "|" or follows a line of a run
RECURSIVE InRun(_, _)
InRun(ls, k) ==
    /\ BarLine(ls, k)
    /\ \/ IsTableStart(Strip(ls[k + 1]))
       \/ k > 0 /\ InRun(ls, k - 1)

\* C14 amended: in the Markdown dispatcher a run starts at a "|"-prefixed line
\* that holds a second "|" and is in no run yet, and takes the "|"-prefixed
\* lines that follow; it gives one table (first row the header, second row
\* dropped, the later rows with a non-blank cell the data rows) exactly when it
\* has 2 rows or more and at least one data row, else no table; there is no
\* other table.
C14_TableFromRun ==
    WalkOver =>
        \A ls \in {docx_lines} :
        \A starts \in {{a \in 0..(Len(ls) - 1) :
                          InRun(ls, a) /\ (a = 0 \/ ~InRun(ls, a - 1))}} :
            TablesOfSection =
               {TableOfRun(ls, a, LastBarFrom(ls, a)) : a \in
                   {x \in starts :
                      /\ LastBarFrom(ls, x) - x + 1 >= 2
                      /\ RowsWithCells(ls, x + 2, LastBarFrom(ls, x), 1) # <<>>}}

\* C14 witness: header, separator and 2 data rows gave one table with the
\* header row and 2 data rows.
C14_Witness ==
    /\ WalkOver
    /\ docx_lines = << <<"|","*","a","*","|","b","|">>, <<"|","-","|","-","|">>,
                       <<"|","1","|","2","|">>, <<"|","1","|","2","|">> >>
    /\ TablesOfSection =
          { [line |-> 0,
             header |-> << <<"*","a","*">>, <<"b">> >>,
             rows |-> << << <<"1">>, <<"2">> >>, << <<"1">>, <<"2">> >> >>] }

\* the styled run of a matched span: the style of the alternative that
\* matched it and the span's text without the markers of that alternative
SpanRun(span) ==
    IF Len(span) >= 4 /\ StartsWith(span, <<"*","*">>)
    THEN [style |-> "bold", text |-> SubSeq(span, 3, Len(span) - 2)]
    ELSE IF span[1] = "*"
    THEN [style |-> "italic", text |-> SubSeq(span, 2, Len(span) - 1)]
    ELSE IF span[1] = Backquote
    THEN [style |-> "code", text |-> SubSeq(span, 2, Len(span) - 1)]
    ELSE [style |-> "link",
          text |-> SubSeq(span, 2, FirstAt(span, <<"]","(">>, 2) - 1)]

\* one plain run per non-empty gap (odd parts), one styled run per span
\* (even parts), in the order of the parts
RECURSIVE RunPerPart(_, _)
RunPerPart(parts, k) ==
    IF k > Len(parts) THEN <<>>
    ELSE (IF parts[k] = <<>> THEN <<>>
          ELSE IF k % 2 = 1 THEN << [style |-> "plain", text |-> parts[k]] >>
          ELSE << SpanRun(parts[k]) >>)
         \o RunPerPart(parts, k + 1)

\* C15 as stated: parse_markdown_line adds, in left-to-right order, one styled
\* run per matched span (bold, italic, code, link; the double asterisk before
\* the single one), its text without the markers, and one plain run per gap.
C15_AsStated ==
    ipc = "done" => md_runs = RunPerPart(md_parts, 1)

\* a line that starts with a speaker-note keyword, in any case
IsSpeakerNote(raw) ==
    \E keyword \in SpeakerNoteKeywords :
        StartsWith(StrUpper(Strip(raw)), keyword)

\* a line that turns the content flag off
TurnsOff(raw) == IsSpeakerNote(raw) \/ StartsWith(Strip(raw), ImageTag)

\* the content flag is on when line k is read: a "CONTENT:" line came before
\* it with no speaker-note and no "IMAGE_SUGGESTION:" line in between
ContentOnBefore(ls, k) ==
    \E j \in 1..(k - 1) :
        /\ StartsWith(Strip(ls[j]), ContentTag)
        /\ \A m \in (j + 1)..(k - 1) : ~TurnsOff(ls[m])

IsBulletLine(ls, k) ==
    /\ ContentOnBefore(ls, k)
    /\ ~TurnsOff(ls[k])
    /\ ~StartsWith(Strip(ls[k]), ContentTag)
    /\ ~StartsWith(Strip(ls[k]), TitleTag)
    /\ BulletOf(Strip(ls[k])) # <<>>

RECURSIVE BulletsUpTo(_, _, _)
BulletsUpTo(ls, k, n) ==
    IF k > n THEN <<>>
    ELSE (IF IsBulletLine(ls, k) THEN <<BulletOf(Strip(ls[k]))>> ELSE <<>>)
         \o BulletsUpTo(ls, k + 1, n)

\* C16 (state part): after the first n lines the bullets are, in input order,
\* those of the non-empty lines read while the content flag was on, and the
\* flag is on exactly when a "CONTENT:" line was read with no speaker-note or
\* "IMAGE_SUGGESTION:" line since.
C16_BulletsWhileFlagOn ==
    spc \in {"scan", "done"} /\ slide_content # <<>> =>
        \A ls \in {slide_lines} : \A n \in {slide_line_no - 1} :
            /\ slide_result.bullets = BulletsUpTo(ls, 1, n)
            /\ in_content_section = ContentOnBefore(ls, n + 1)

\* C16 (step part): reading a speaker-note line adds no bullet and leaves the
\* content flag off.
C16_NoteStep ==
    (spc = "scan" /\ slide_line_no <= Len(slide_lines)
       /\ IsSpeakerNote(slide_lines[slide_line_no])) =>
        /\ slide_result'.bullets = slide_result.bullets
        /\ ~in_content_section'

\* C16: parse_slide_content collects bullets only from non-empty lines read
\* while the content flag is on, in input order; a speaker-note line is never
\* a bullet and turns the flag off until the next "CONTENT:" line.
C16_BulletsOnlyInContent ==
    []C16_BulletsWhileFlagOn /\ [][C16_NoteStep]_vars

\* C16 witness: "CONTENT:", "- a", "Note: n", "- a" gave the single bullet "a":
\* the line after the speaker note was read with the flag off.
C16_Witness ==
    /\ spc = "done"
    /\ slide_lines = << <<"C","O","N","T","E","N","T",":">>, <<"-"," ","a">>,
                        <<"N","o","t","e",":"," ","n">>,
                        <<"-"," ","a">> >>
    /\ slide_result.bullets = << <<"a">> >>
    /\ ~in_content_section

\* the renderer is done with every section
AllSectionsRendered == sec_no > Len(exp_sections)

\* C17 (state part): once the buffer is reset it holds the complete document;
\* when it is handed to the handler its cursor is at 0; the response streams
\* the complete document.
C17_WrittenThenReset ==
    /\ epc \in {"docx_seek", "pptx_seek", "docx_return", "pptx_return",
                "respond", "done"} =>
          AllSectionsRendered /\ file_stream.data = doc_body
    /\ epc \in {"docx_return", "pptx_return", "respond"} => file_stream.pos = 0
    /\ epc = "done" => exp_response.body = doc_body

\* C17 (step part): a step taken after the buffer was returned does not write
\* to it.
C17_NoWriteAfterReturn ==
    epc \in {"respond", "done"} => file_stream'.data = file_stream.data

\* C17: create_docx and create_pptx write the complete document into the
\* buffer, then reset its cursor to 0 and only then return it; nothing is
\* written to the buffer after it has been returned.
C17_BufferHandOff ==
    []C17_WrittenThenReset /\ [][C17_NoWriteAfterReturn]_vars

\* C17 witness: a document of two elements or more was streamed whole.
C17_Witness ==
    /\ epc = "done"
    /\ exp_project.type = "docx"
    /\ Len(exp_response.body) >= 3
    /\ exp_response.body = file_stream.data

\* C18 (state part): while a section is walked the cursor is at most one past
\* the end of the chunk (a run that ends the chunk leaves it there), so that
\* Len(docx_lines) + 1 - line_i is a natural number, and the lines consumed so
\* far are the lines before the cursor, each once and in order.
C18_EveryLineOnce ==
    epc = "docx_line" =>
        /\ line_i \in 0..(Len(docx_lines) + 1)
        /\ visited = [k \in 1..(IF line_i < Len(docx_lines)
                                THEN line_i ELSE Len(docx_lines)) |-> k - 1]

\* C18 (step part): an iteration of the walker moves the cursor forward, so
\* that Len(docx_lines) + 1 - line_i decreases, and an iteration that starts a
\* table run moves it over the "|"-prefixed lines that follow, onto the first
\* line that is not one; past the last line the loop is left.
C18_CursorAdvances ==
    epc = "docx_line" =>
        IF line_i < Len(docx_lines)
        THEN /\ epc' = "docx_line"
             /\ line_i' > line_i
             /\ IsTableStart(Strip(docx_lines[line_i + 1])) =>
                   /\ \A k \in line_i..(line_i' - 1) :
                         k < Len(docx_lines) => BarLine(docx_lines, k)
                   /\ line_i' < Len(docx_lines) => ~BarLine(docx_lines, line_i')
        ELSE epc' = "docx_section"

\* C18: the Markdown line walker of create_docx terminates for every chunk and
\* dispatches every line exactly once: the cursor advances on every iteration
\* and is never more than one past the end of the chunk (the distance to
\* there is a variant of the loop), a table run consumes its contiguous "|"-prefixed
\* lines and the first line after the run is the next one processed.
C18_WalkerTerminates ==
    []C18_EveryLineOnce /\ [][C18_CursorAdvances]_vars

\* C18 witness: after a run of three rows the paragraph that follows was the
\* next line processed, and the walker is past the last line.
C18_Witness ==
    /\ epc = "docx_line"
    /\ docx_lines = << <<"|","*","a","*","|","b","|">>, <<"|","-","|","-","|">>,
                       <<"|","1","|","2","|">>, <<"*","p","*">> >>
    /\ line_i = 4
    /\ visited = <<0, 1, 2, 3>>
    /\ doc_body[Len(doc_body)].kind = "para"
    /\ doc_body[Len(doc_body)].line = 3

\* the projects that have rows or sections
ProjectIds == {p.id : p \in project_rows}

\* C19 (step part): a delete_section request of the owner for the only
\* section of a project is answered with 400 and leaves the section table as
\* it is, and no delete_section request takes the last section of a project.
C19_DeleteStep ==
    crud_op' = "delete_section" =>
       \A user \in Users, section_id \in RequestIds :
          DeleteSection(user, section_id) =>
             /\ \A r \in section_rows :
                   (/\ r.id = section_id
                    /\ SectionCount(section_rows, r.projectId) = 1
                    /\ \E p \in project_rows :
                          p.id = r.projectId /\ p.userId = user)
                   => http_status' = 400 /\ section_rows' = section_rows
             /\ \A projectId \in ProjectIds :
                   SectionCount(section_rows, projectId) >= 1
                   => SectionCount(section_rows', projectId) >= 1

\* C19: delete_section on a project with exactly one section is rejected with
\* HTTP 400 and deletes nothing, so no sequence of delete_section requests
\* brings a project that has a section down to no section.
C19_LastSectionKept == [][C19_DeleteStep]_vars

\* C19 witness: a delete_section request was answered with 400, which only
\* the minimum section requirement does, and a project has one section.
C19_Witness ==
    /\ crud_op = "delete_section"
    /\ http_status = 400
    /\ \E projectId \in ProjectIds :
          SectionCount(section_rows, projectId) = 1

\* C20: after any sequence of create_project, create_section, delete_section
\* and reorder_section requests the orderIndex values of the sections of each
\* project are exactly 0..n-1, with no gap and no duplicate.
C20_OrderIndexDense ==
    \A projectId \in ProjectIds :
       LET own == SectionsOf(section_rows, projectId)
       IN  /\ {r.orderIndex : r \in own} = 0..(Cardinality(own) - 1)
           /\ \A r, q \in own : r.orderIndex = q.orderIndex => r = q

\* C20 witness: a project of two sections whose order is not the order of
\* their creation, after a section inserted between them was deleted and a
\* section was moved: create, insert, delete and reorder have all acted.
C20_Witness ==
    /\ crud_op = "reorder_section"
    /\ http_status = 200
    /\ section_rows = {[id |-> 1, projectId |-> 1, orderIndex |-> 1],
                       [id |-> 2, projectId |-> 1, orderIndex |-> 0]}
    /\ next_id = 4

\* the orderIndex of the row with this id
OrderOf(rows, id) == (CHOOSE r \in rows : r.id = id).orderIndex

\* the rows that are not of this project
RowsOutside(rows, projectId) == {r \in rows : r.projectId # projectId}

\* C21 (step): a reorder_section request answered with 200 leaves the section
\* at the index asked for, keeps the other sections of the project in their
\* order and leaves the rows of the other projects as they were.
C21_ReorderStep ==
    crud_op' = "reorder_section" /\ http_status' = 200 =>
       \A user \in Users, section_id \in RequestIds,
          k \in (-1)..Cardinality(section_rows) :
          ReorderSection(user, section_id, k) =>
             \A s \in {r \in section_rows : r.id = section_id} :
                LET others == {r.id : r \in SectionsOf(section_rows,
                                                       s.projectId)}
                              \ {section_id}
                IN  /\ {r.id : r \in section_rows'} =
                          {r.id : r \in section_rows}
                    /\ OrderOf(section_rows', section_id) = k
                    /\ \A a, b \in others :
                          OrderOf(section_rows, a) < OrderOf(section_rows, b)
                          => OrderOf(section_rows', a)
                                < OrderOf(section_rows', b)
                    /\ RowsOutside(section_rows', s.projectId) =
                          RowsOutside(section_rows, s.projectId)

\* C21: a successful reorder_section(section, k) leaves that section at
\* orderIndex k, preserves the relative order of all other sections of the
\* same project, and changes no section of any other project.
C21_ReorderMovesOne == [][C21_ReorderStep]_vars

\* C21 witness: the third of three sections was moved to the front while
\* another project has a section.
C21_Witness ==
    /\ crud_op = "reorder_section"
    /\ http_status = 200
    /\ project_updates = {1}
    /\ section_rows = {[id |-> 1, projectId |-> 1, orderIndex |-> 1],
                       [id |-> 2, projectId |-> 1, orderIndex |-> 2],
                       [id |-> 3, projectId |-> 1, orderIndex |-> 0],
                       [id |-> 4, projectId |-> 2, orderIndex |-> 0]}

\* C22 (step): a reorder_section request of the owner with an index out of
\* 0..count-1 is answered with 400 and one with the section's own index with
\* 200; both leave every row as it is, and neither writes updatedAt.
C22_ReorderStep ==
    crud_op' = "reorder_section" =>
       \A user \in Users, section_id \in RequestIds,
          k \in (-1)..Cardinality(section_rows) :
          \A s \in {r \in section_rows : r.id = section_id} :
             (/\ \E p \in project_rows :
                    p.id = s.projectId /\ p.userId = user
              /\ \/ k < 0
                 \/ k > SectionCount(section_rows, s.projectId) - 1
                 \/ k = s.orderIndex)
             => \/ /\ http_status' = (IF k = s.orderIndex THEN 200 ELSE 400)
                   /\ section_rows' = section_rows
                   /\ project_updates' = {}
                \/ ~ReorderSection(user, section_id, k)

\* C22: reorder_section with newOrderIndex below 0 or above the number of
\* sections of the project - 1 is rejected with HTTP 400 and changes no
\* orderIndex; with newOrderIndex equal to the section's orderIndex it returns
\* the section and changes neither any orderIndex nor the project's updatedAt.
C22_ReorderRejects == [][C22_ReorderStep]_vars

\* C22 witness: a reorder_section request was answered with 400, which only
\* the index validation does, in a project of two sections or more.
C22_Witness ==
    /\ crud_op = "reorder_section"
    /\ http_status = 400
    /\ project_updates = {}
    /\ \E projectId \in ProjectIds : SectionCount(section_rows, projectId) >= 2

\* C23 as stated (step): for a request of the owner of the project,
\* insertAfter naming a section of the project places the new row right after
\* it and moves the rows at or after that index one down; without insertAfter
\* the new row gets the largest orderIndex plus 1, or 0; insertAfter naming no
\* section or a section of another project is answered with 400 and no row is
\* changed.
C23_CreateStep ==
    crud_op' = "create_section" =>
       \A user \in Users, projectId \in ProjectIds,
          insertAfter \in {<<>>} \cup {<<i>> : i \in RequestIds} :
          (/\ CreateSection(user, projectId, insertAfter)
           /\ \E p \in project_rows : p.id = projectId /\ p.userId = user)
          => LET own == SectionsOf(section_rows, projectId)
                 named == IF insertAfter = <<>> THEN {}
                          ELSE {r \in own : r.id = insertAfter[1]}
             IN  IF insertAfter = <<>>
                 THEN /\ http_status' = 200
                      /\ section_rows' =
                            section_rows
                            \cup {[id |-> next_id, projectId |-> projectId,
                                   orderIndex |->
                                      IF own = {} THEN 0
                                      ELSE (CHOOSE m \in {r.orderIndex :
                                                              r \in own} :
                                              \A r \in own :
                                                 r.orderIndex <= m) + 1]}
                 ELSE IF named = {}
                 THEN http_status' = 400 /\ section_rows' = section_rows
                 ELSE \A a \in named :
                         /\ http_status' = 200
                         /\ OrderOf(section_rows', next_id) = a.orderIndex + 1
                         /\ \A r \in section_rows :
                               OrderOf(section_rows', r.id) =
                                  IF /\ r.projectId = projectId
                                     /\ r.orderIndex >= a.orderIndex + 1
                                  THEN r.orderIndex + 1 ELSE r.orderIndex

\* C23 as stated: create_section with insertAfter naming a section of the
\* same project places the new section at that section's orderIndex + 1 and
\* increments the orderIndex of every section previously at or after that
\* position; without insertAfter the new section gets the largest orderIndex
\* of the project plus 1 (0 for a project without sections); an insertAfter
\* naming no section or a section of another project is rejected with HTTP
\* 400 before any orderIndex is changed.
C23_AsStated == [][C23_CreateStep]_vars

\* C24: create_section followed by delete_section of the section it created
\* leaves every section that was there before the create with the orderIndex
\* it had.
C24_CreateDeleteRestores ==
    (last_created # <<>> /\ last_created[1].deleted) =>
        \A r \in last_created[1].before : r \in section_rows

\* C24 witness: a section inserted at index 1 of a project of two sections or
\* more was deleted again.
C24_Witness ==
    /\ last_created # <<>>
    /\ last_created[1].deleted
    /\ last_created[1].orderIndex = 1
    /\ \E projectId \in ProjectIds :
          SectionCount(last_created[1].before, projectId) >= 2
    /\ crud_op = "delete_section"
    /\ http_status = 200

\* every request has been answered
AllAnswered == tasks # <<>> /\ \A t \in TaskIds : tasks[t].pc = "done"

\* C25: under every interleaving of concurrent create_section,
\* delete_section and reorder_section requests on one project, each awaited
\* database call being one step, no two sections of the project end up with
\* the same orderIndex.
C25_AsStated ==
    AllAnswered =>
       \A r, q \in SectionsOf(section_rows, ConcProject) :
          r.orderIndex = q.orderIndex => r = q

\* C26: under interleaved delete_section requests for different sections of
\* one project, the count check and the delete being separate steps, the
\* project has at least one section in every reachable state.
C26_AsStated ==
    (/\ tasks # <<>>
     /\ \A t \in TaskIds : tasks[t].op = "delete_section"
     /\ \A t, u \in TaskIds : t # u => tasks[t].section_id # tasks[u].section_id)
    => SectionCount(section_rows, ConcProject) >= 1

\* C27: a regenerate_with_feedback step of the owner with no feedback text
\* in the request, on a section that has no comment of the user, is answered
\* with HTTP 400 and changes no section content, no refinement history, no
\* feedback and no comment.
C27_RegenerateStep ==
    content_op' = "regenerate_with_feedback" =>
       \A section_id \in ContentSectionIds, feedback \in {<<>>, <<<<>>>>} :
          (/\ comments[section_id] = <<>>
           /\ RegenerateWithFeedback(1, section_id, feedback))
          => /\ content_status' = 400
             /\ UNCHANGED <<content_rows, history_count, feedback_type,
                            comments>>

C27_AsStated == [][C27_RegenerateStep]_vars

\* empty or whitespace-only, as the claim reads it
IsBlank(content) == \A i \in 1..Len(content) : content[i] \in {" ", NL, "\t"}

\* C28: a generate_all_sections step of the owner writes the generated text
\* to exactly the sections whose content is empty or whitespace-only and
\* leaves every other section as it was, returns the number of sections it
\* generated, and writes the project's updatedAt only when that count is
\* greater than 0.
C28_GenerateAllStep ==
    (content_op' = "generate_all_sections" /\ content_status' = 200) =>
       \A ai_texts \in [ContentSectionIds -> AiTexts] :
          GenerateAllSections(1, 1, ai_texts) =>
             /\ \A k \in ContentSectionIds :
                   content_rows'[k] =
                      IF IsBlank(content_rows[k].content)
                      THEN [content_rows[k] EXCEPT !.content = ai_texts[k]]
                      ELSE content_rows[k]
             /\ generated_count' =
                   Cardinality({k \in ContentSectionIds :
                                  IsBlank(content_rows[k].content)})
             /\ content_touched' => generated_count' > 0

C28_GeneratesBlankOnly == [][C28_GenerateAllStep]_vars

C28_Witness ==
    /\ content_op = "generate_all_sections"
    /\ content_status = 200
    /\ generated_count = 1
    /\ content_touched
    /\ content_rows[1].content = <<"u">>
    /\ content_rows[2].content = <<"g">>

\* C29: in a docx project, every answered update_section, generate_section,
\* refine_section or generate_all_sections step leaves each section whose
\* content it changed with htmlContent = markdown_to_html(content).
C29_ContentStep ==
    (/\ proj_type = "docx"
     /\ content_status' = 200
     /\ content_op' \in {"update_section", "generate_section",
                         "refine_section", "generate_all_sections"})
    => \A k \in ContentSectionIds :
          content_rows'[k].content # content_rows[k].content
          => content_rows'[k].htmlContent =
                MarkdownToHtml(content_rows'[k].content)

C29_AsStated == [][C29_ContentStep]_vars

\* the callers that are inside the body of ensure_connection
InBody == {c \in CallerIds : callers[c].pc \in BodyAwaits}

C30_MutualExclusion ==
    callers # <<>> =>
       /\ Cardinality(InBody) <= 1
       /\ \A c \in InBody : connection_lock = c

\* a connect() call starts in a step that takes a caller to the connect or
\* the reconnect await
C30_ConnectStarts ==
    \A c \in CallerIds :
       (/\ callers'[c].pc \in {"connect", "reconnect"}
        /\ callers'[c].pc # callers[c].pc)
       => \A d \in CallerIds \ {c} :
             callers[d].pc \notin {"connect", "health_check", "reconnect"}

C30_ReturnStep ==
    \A c \in CallerIds :
       (/\ callers'[c].ensured = "returned"
        /\ callers[c].ensured # "returned")
       => is_connected' /\ last_health_check' # <<>>

\* C30: ensure_connection is mutually exclusive across concurrent callers,
\* so no caller starts connect() while another caller's connect, health
\* check or reconnect is in progress, and whenever ensure_connection returns
\* without raising the client is connected and last_health_check is set.
C30_EnsureConnection ==
    /\ []C30_MutualExclusion
    /\ [][C30_ConnectStarts]_vars
    /\ [][C30_ReturnStep]_vars

C30_Witness ==
    /\ callers # <<>>
    /\ callers[1].pc = "yielded" /\ callers[1].ensured = "returned"
    /\ callers[2].pc = "reconnect" /\ callers[2].attempt = 2
    /\ connection_lock = 2
    /\ last_health_check # <<>>

====
